---- MODULE Spec2Model ----
(***************************************************************************)
(* Frame routing of the infer_server crate.  The repository carries three  *)
(* server variants; each is modelled as its own specification over its own *)
(* variables:                                                              *)
(*   SpecHG  the "hour glass" server: data sockets feed one incoming       *)
(*           queue, FrameRouter::run fans frames out to broadcast channels *)
(*           and offers them to the inference queue (router.rs, lib.rs,    *)
(*           hour_glass/).                                                 *)
(*   SpecMP  the message-passing server: a Registry task hands viewer      *)
(*           senders to the publisher tasks, which send to each viewer's   *)
(*           own channel (msg_passing/).                                   *)
(*   SpecPS  the publish/subscribe server: data sockets send to a named    *)
(*           broadcast channel and offer to a named mpsc channel that the  *)
(*           InferBroker drains into the Inferer (data_socket.rs,          *)
(*           pubsub.rs, inferer.rs, endpoints.rs).                         *)
(*   SpecNN  the postprocessing of the detector, as calls of its pure      *)
(*           functions on bounded inputs (nn.rs of infer_server and of the *)
(*           root crate).                                                  *)
(***************************************************************************)
EXTENDS Integers, Sequences, FiniteSets, TLC

(* ------------------------------------------------------------------ *)
(* Bounds                                                               *)
(* ------------------------------------------------------------------ *)
\* number of frames a publisher connection sends
MaxFrames == 4
\* slots of INCOMING_FRAMES_CHANNEL (200 in lib.rs), scaled for checking
IncomingCap == 2
\* slots of a broadcast channel (20 in lib.rs), scaled for checking
BroadcastCap == 2
\* slots of INFER_IMAGES_CHANNEL (10 in lib.rs), scaled for checking
InferCap == 2

\* frames the router takes between two refreshes of its sender snapshot
RefreshEvery == 4
\* frame dimensions the router stamps on an inference job
FrameWidth == 1280
FrameHeight == 720

Names == {"a", "b"}
Subs == {1, 2}
\* "no entry" in a map from channel id to broadcast channel
NoCh == 0

(* ------------------------------------------------------------------ *)
(* Pure helpers                                                         *)
(* ------------------------------------------------------------------ *)
\* 64-bit hash of a channel name; distinct on the names of the model
hashed(name) == CASE name = "a" -> 1 [] name = "b" -> 2

Ids == {hashed(n) : n \in Names}

\* a JPEG payload: the frame number the publisher gave it, and whether the
\* inference worker has drawn on it
Jpeg(n) == [n |-> n, boxes |-> FALSE]

\* header and trailer around an empty payload
as_jpeg_stream_item_empty(data) ==
    <<"--frame\r\nContent-Type: image/jpeg\r\n\r\n", Jpeg(0), "\r\n\r\n">>

as_jpeg_stream_item(data) ==
    <<"--frame\r\nContent-Type: image/jpeg\r\n\r\n", data, "\r\n\r\n">>

FrameMsg(id, data) == [kind |-> "FrameMsg", id |-> id, data |-> data]

ConnectReq(name) == [kind |-> "ConnectReq", id |-> name, data |-> Jpeg(0)]

\* channel name the camera of the model is started with
PubName == "a"

\* decode -> detect -> draw -> encode
process_frame(frame) == [frame EXCEPT !.boxes = TRUE]

(* ------------------------------------------------------------------ *)
(* State of the hour-glass server                                       *)
(* ------------------------------------------------------------------ *)
VARIABLES
    hg_pc,                  \* data socket task: "read" | "send"
    hg_connected,           \* the connection has sent its ConnectReq
    hg_held,                \* message the data socket task is sending
    hg_pub,                 \* names of the frames read from the socket so far
    incoming,               \* INCOMING_FRAMES_CHANNEL
    frames_broadcast_map,   \* FrameRouter.frames_broadcast_map: id -> channel
    infered_broadcast_map,  \* FrameRouter.infered_broadcast_map
    router_pc,              \* "start" | "recv"
    router_i,               \* position in the `for _ in 0..4` loop
    frames_sender_map,      \* local snapshot in FrameRouter::run
    infered_sender_map,     \* local snapshot in FrameRouter::run
    infer_q,                \* INFER_IMAGES_CHANNEL
    observed,               \* jobs the inference worker has taken
    sub_st,                 \* viewer: "idle" | "live" | "gone"
    sub_kind,               \* "raw" | "infered"
    sub_name,               \* channel name of the request
    sub_ch,                 \* broadcast channel the receiver belongs to
    sub_q,                  \* values the receiver has not yet taken
    sub_lag,                \* values the receiver lost by lagging
    sub_recv,               \* items written to the response body
    sub_early,              \* the viewer attached before the first frame
    sub_lost,               \* the receiver has lagged at least once
    hg_offer,               \* outcome of the router's latest inference offer
    METER                   \* meter::METER: counters raw_frames, infered_frames

hgVars == <<hg_pc, hg_connected, hg_held, hg_pub, incoming, frames_broadcast_map,
            infered_broadcast_map, router_pc, router_i, frames_sender_map,
            infered_sender_map, infer_q, observed, sub_st, sub_kind,
            sub_name, sub_ch, sub_q, sub_lag, sub_recv, sub_early, sub_lost,
            hg_offer, METER>>



(* State of the message-passing server *)
VARIABLES
    mp_pc,                  \* publisher task: "connect" | "run" | "fanout" | "ended" | "panicked"
    mp_name,                \* channel name of the ConnectReq
    mp_nsent,               \* frames read from the socket
    mp_senders_q,           \* senders_rx: listener lists sent by the registry
    mp_listeners,           \* listeners of handle_incoming
    mp_failed,              \* failed_senders of handle_incoming
    mp_idx,                 \* position of the send loop in listeners (1-based)
    mp_cur,                 \* the item the send loop is sending
    mp_frame_q,             \* frame_stream_listener channel: (name, tx)
    mp_tcp_q,               \* tcp_tasks_comm channel: (name, senders_tx)
    mp_frames_sender_map,   \* Registry.frames_sender_map: id -> Vec
    mp_tcp_tasks_comm,      \* Registry.tcp_tasks_comm: id -> publisher task
    mp_expired,             \* expired_sender_ids: futures not yet completed
    mp_sub_st,              \* viewer: "idle" | "live" | "gone"
    mp_sub_name,            \* channel name of the request
    mp_sink_q,              \* the viewer's mpsc channel
    mp_sub_recv             \* items written to the response body

mpVars == <<mp_pc, mp_name, mp_nsent, mp_senders_q, mp_listeners, mp_failed,
            mp_idx, mp_cur, mp_frame_q, mp_tcp_q, mp_frames_sender_map,
            mp_tcp_tasks_comm, mp_expired, mp_sub_st, mp_sub_name, mp_sink_q,
            mp_sub_recv>>

(* State of the publish/subscribe server *)
VARIABLES
    ps_pc,                  \* data socket task: "connect" | "read" | "offer"
                            \*   | "closed" | "panicked"
    ps_nsent,               \* frames read from the socket
    ps_cur,                 \* frame message the task is handling
    ps_broadcast_map,       \* NamedPubSub.broadcast_map: names with a channel
    ps_mpsc_map,            \* NamedPubSub.mpsc_map: "none" | "some" | "taken"
    ps_mpsc_q,              \* the mpsc channel of each name
    ps_channel_map,         \* InferBroker.channel_map: name -> infered channel
    ps_broker_pc,           \* InferBroker::run: "tick" | "loop" | "send"
    ps_todo,                \* entries the for loop has still to visit
    ps_held,                \* job the broker is sending to the Inferer
    ps_infer_queue,         \* the infer_queue channel
    ps_unsendable,          \* the unsendable channel
    ps_observed,            \* frames the Inferer has taken
    ps_sub_st,              \* viewer: "idle" | "live" | "gone"
    ps_sub_kind,            \* "raw" | "infered"
    ps_sub_name,            \* channel name of the request
    ps_sub_ch,              \* infered channel the receiver belongs to
    ps_sub_q,               \* values the receiver has not yet taken
    ps_sub_lag,             \* values the receiver lost by lagging
    ps_sub_recv,            \* items written to the response body
    ps_sub_from,            \* frames sent before the viewer subscribed
    ps_err                  \* process_frame of the last job returned Err

psVars == <<ps_pc, ps_nsent, ps_cur, ps_broadcast_map, ps_mpsc_map, ps_mpsc_q,
            ps_channel_map, ps_broker_pc, ps_todo, ps_held, ps_infer_queue,
            ps_unsendable, ps_observed, ps_sub_st, ps_sub_kind, ps_sub_name,
            ps_sub_ch, ps_sub_q, ps_sub_lag, ps_sub_recv, ps_sub_from,
            ps_err>>

(* ------------------------------------------------------------------ *)
(* A call of a function of nn.rs                                        *)
(* ------------------------------------------------------------------ *)
VARIABLES
    nn_fn,                  \* the function called, "none" before the call
    nn_in,                  \* its arguments
    nn_out                  \* what it returned

nnVars == <<nn_fn, nn_in, nn_out>>

\* the annotated side of the message-passing Registry
VARIABLES
    mp_infered_q,                  \* infered_stream_listener channel
    mp_infered_frames_sender_map,  \* id -> senders of annotated sinks
    mp_sub_kind                    \* the side a sink was registered on
mpInferedVars == <<mp_infered_q, mp_infered_frames_sender_map, mp_sub_kind>>

\* the callers of the meter
VARIABLES
    meter_pc,       \* the call the meter logger makes next
    meter_ticks,    \* calls of tick_raw and tick_infered made so far
    meter_got       \* sums of the values get_reset_raw, get_reset_infered gave
meterVars == <<meter_pc, meter_ticks, meter_got>>

\* InferBroker and Inferer over several channels
VARIABLES
    ib_viewer,        \* name -> "none", "live", "gone": its annotated viewer
    ib_img_q,         \* names with a frame waiting in their mpsc channel
    ib_channel_map,   \* names with an entry in InferBroker.channel_map
    ib_pc,            \* InferBroker::run: "tick", "loop", "send"
    ib_todo,          \* entries the for loop has still to visit
    ib_held,          \* the job InferBroker::run is sending
    ib_infer_queue,   \* the infer queue: names of the jobs
    ib_inferer,       \* the name Inferer::run is sending, or NoName
    ib_unsendable     \* the unsendable queue
brokerVars == <<ib_viewer, ib_img_q, ib_channel_map, ib_pc, ib_todo, ib_held,
                ib_infer_queue, ib_inferer, ib_unsendable>>

vars == <<hgVars, mpVars, psVars, nnVars, mpInferedVars, meterVars,
          brokerVars>>

\* what the steps of one server leave alone: the state of the others
notHG == <<mpVars, psVars, nnVars, mpInferedVars, meterVars, brokerVars>>
notMP == <<hgVars, psVars, nnVars, mpInferedVars, meterVars, brokerVars>>
notPS == <<hgVars, mpVars, nnVars, mpInferedVars, meterVars, brokerVars>>
notNN == <<hgVars, mpVars, psVars, mpInferedVars, meterVars, brokerVars>>
notBroker == <<hgVars, mpVars, psVars, nnVars, mpInferedVars, meterVars>>

NoMsg == [kind |-> "none"]

HGInit ==
    /\ hg_pc = "read"
    /\ hg_connected = FALSE
    /\ hg_held = NoMsg
    /\ hg_pub = <<>>
    /\ incoming = <<>>
    /\ frames_broadcast_map = [id \in Ids |-> NoCh]
    /\ infered_broadcast_map = [id \in Ids |-> NoCh]
    /\ router_pc = "start"
    /\ router_i = 0
    /\ frames_sender_map = [id \in Ids |-> NoCh]
    /\ infered_sender_map = [id \in Ids |-> NoCh]
    /\ infer_q = <<>>
    /\ observed = <<>>
    /\ METER = [raw_frames |-> 0, infered_frames |-> 0]
    /\ sub_st = [s \in Subs |-> "idle"]
    /\ sub_kind = [s \in Subs |-> "raw"]
    /\ sub_name = [s \in Subs |-> "a"]
    /\ sub_ch = [s \in Subs |-> NoCh]
    /\ sub_q = [s \in Subs |-> <<>>]
    /\ sub_lag = [s \in Subs |-> 0]
    /\ sub_recv = [s \in Subs |-> <<>>]
    /\ sub_early = [s \in Subs |-> FALSE]
    /\ sub_lost = [s \in Subs |-> FALSE]
    /\ hg_offer = "none"

(* ------------------------------------------------------------------ *)
(* tokio::sync::broadcast                                               *)
(* ------------------------------------------------------------------ *)
\* receivers of channel ch that have not been dropped
Receivers(ch) == {s \in Subs : sub_st[s] = "live" /\ sub_ch[s] = ch}

receiver_count(ch) == Cardinality(Receivers(ch))

\* a broadcast channel that hands out the newest value first
SendQ_front(ch, item) ==
    [s \in Subs |->
        IF s \in Receivers(ch)
        THEN IF Len(sub_q[s]) < BroadcastCap
             THEN <<item>> \o sub_q[s]
             ELSE <<item>> \o SubSeq(sub_q[s], 1, Len(sub_q[s]) - 1)
        ELSE sub_q[s]]

\* Sender::send: every receiver of ch sees the value; a receiver that is
\* BroadcastCap values behind loses its oldest value
SendQ(ch, item) ==
    [s \in Subs |->
        IF s \in Receivers(ch)
        THEN IF Len(sub_q[s]) < BroadcastCap
             THEN Append(sub_q[s], item)
             ELSE Append(Tail(sub_q[s]), item)
        ELSE sub_q[s]]

SendLag(ch) ==
    [s \in Subs |->
        IF s \in Receivers(ch) /\ Len(sub_q[s]) >= BroadcastCap
        THEN sub_lag[s] + 1
        ELSE sub_lag[s]]

(* ------------------------------------------------------------------ *)
(* hour_glass/data_socket.rs                                            *)
(* ------------------------------------------------------------------ *)
\* transport.next(): the next length-delimited message of the connection
HgSocketRead ==
    /\ UNCHANGED <<notHG, METER>>
    /\ hg_pc = "read"
    /\ \E kind \in {"ConnectReq", "FrameMsg"} :
          IF kind = "ConnectReq"
          THEN /\ ~hg_connected /\ hg_pub = <<>>
               /\ hg_held' = ConnectReq(PubName)
               /\ hg_connected' = TRUE
               /\ UNCHANGED hg_pub
          ELSE /\ Len(hg_pub) < MaxFrames
               /\ hg_held' = FrameMsg(PubName, Jpeg(Len(hg_pub) + 1))
               /\ hg_pub' = Append(hg_pub, PubName)
               /\ UNCHANGED hg_connected
    /\ hg_pc' = "send"
    /\ UNCHANGED <<incoming, frames_broadcast_map, infered_broadcast_map,
                   router_pc, router_i, frames_sender_map, infered_sender_map,
                   infer_q, observed, sub_st, sub_kind, sub_name, sub_ch,
                   sub_q, sub_lag, sub_recv, sub_early, sub_lost, hg_offer>>

\* tx.send(data).await: completes once the incoming queue has a free slot
\* frames a connection sends in the runs with several channel ids
IdFrames == 3

\* transport.next(): the next message is a FrameMsg, its id any name
HgSocketReadIds ==
    /\ UNCHANGED <<notHG, METER>>
    /\ hg_pc = "read"
    /\ Len(hg_pub) < IdFrames
    /\ \E name \in Names :
          /\ hg_held' = FrameMsg(name, Jpeg(Len(hg_pub) + 1))
          /\ hg_pub' = Append(hg_pub, name)
    /\ hg_pc' = "send"
    /\ UNCHANGED <<hg_connected, incoming, frames_broadcast_map,
                   infered_broadcast_map, router_pc, router_i,
                   frames_sender_map, infered_sender_map, infer_q, observed,
                   sub_st, sub_kind, sub_name, sub_ch, sub_q, sub_lag,
                   sub_recv, sub_early, sub_lost, hg_offer>>

HgSocketSend ==
    /\ UNCHANGED <<notHG, METER>>
    /\ hg_pc = "send"
    /\ Len(incoming) < IncomingCap
    /\ incoming' = Append(incoming, hg_held)
    /\ hg_held' = NoMsg
    /\ hg_pc' = "read"
    /\ UNCHANGED <<hg_connected, hg_pub, frames_broadcast_map, infered_broadcast_map,
                   router_pc, router_i, frames_sender_map, infered_sender_map,
                   infer_q, observed, sub_st, sub_kind, sub_name, sub_ch,
                   sub_q, sub_lag, sub_recv, sub_early, sub_lost, hg_offer>>

(* ------------------------------------------------------------------ *)
(* router.rs                                                            *)
(* ------------------------------------------------------------------ *)
\* a collection that drops every entry, with or without receivers
Retained_all(map) == [id \in Ids |-> NoCh]

\* map.retain(|_id, sender| sender.receiver_count() > 0)
Retained(map) ==
    [id \in Ids |->
        IF map[id] # NoCh /\ receiver_count(map[id]) > 0 THEN map[id] ELSE NoCh]

\* the head of the loop in FrameRouter::run: drop the entries without
\* receivers, then make the local snapshots equal to the shared maps
RouterStart ==
    /\ UNCHANGED <<notHG, METER>>
    /\ router_pc = "start"
    /\ router_pc' = "recv"
    /\ frames_broadcast_map' = Retained(frames_broadcast_map)
    /\ infered_broadcast_map' = Retained(infered_broadcast_map)
    /\ frames_sender_map' = Retained(frames_broadcast_map)
    /\ infered_sender_map' = Retained(infered_broadcast_map)
    /\ UNCHANGED <<hg_pc, hg_connected, hg_held, hg_pub, incoming, router_i, infer_q,
                   observed, sub_st, sub_kind, sub_name, sub_ch, sub_q,
                   sub_lag, sub_recv, sub_early, sub_lost, hg_offer>>

\* an offer that takes a slot whether or not one is free
try_send_ref_unbounded(q, job) == Append(q, job)

\* StaticSender::try_send_ref on INFER_IMAGES_CHANNEL: the slot is filled
\* if one is free, otherwise the offer fails and nothing changes
try_send_ref(q, job) == IF Len(q) < InferCap THEN Append(q, job) ELSE q

\* live viewers of the raw stream of channel id
RawSubs(id) ==
    {s \in Subs : sub_st[s] = "live" /\ sub_kind[s] = "raw"
                  /\ hashed(sub_name[s]) = id}

\* live viewers of the annotated stream of channel id
AnnotSubs(id) ==
    {s \in Subs : sub_st[s] = "live" /\ sub_kind[s] = "infered"
                  /\ hashed(sub_name[s]) = id}

\* one pass of the inner loop: take a message, send it to the raw channel
\* of the snapshot, offer it to the inference queue; after the fourth
\* message the head of the outer loop runs again
\* the id of the publisher's channel, whatever the message says
frame_id_first(msg) == hashed(PubName)

\* let id = hashed(&proto_msg.id);
frame_id(msg) == hashed(msg.id)

\* a loop that never comes back to the refresh
refresh_due_never(i) == FALSE

\* for _ in 0..4: the message taken at position i is the last of the round
refresh_due(i) == i + 1 = RefreshEvery

RouterRecv ==
    /\ UNCHANGED <<notHG, METER>>
    /\ router_pc = "recv"
    /\ incoming # <<>>
    /\ LET msg == Head(incoming)
           id == frame_id(msg)
           raw == frames_sender_map[id]
           inf == infered_sender_map[id]
           last == refresh_due(router_i)
       IN  /\ incoming' = Tail(incoming)
           /\ IF msg.kind = "FrameMsg" /\ raw # NoCh
              THEN /\ sub_q' = SendQ(raw, as_jpeg_stream_item(msg.data))
                   /\ sub_lag' = SendLag(raw)
              ELSE UNCHANGED <<sub_q, sub_lag>>
           /\ IF msg.kind = "FrameMsg" /\ inf # NoCh
              THEN /\ infer_q' = try_send_ref(infer_q,
                                   <<FrameWidth, FrameHeight, msg.data, inf>>)
                   /\ hg_offer' = IF infer_q' = infer_q THEN "full" ELSE "queued"
              ELSE /\ UNCHANGED infer_q
                   /\ hg_offer' = "none"
           /\ router_i' = IF last THEN 0 ELSE router_i + 1
           /\ IF last
              THEN /\ frames_broadcast_map' = Retained(frames_broadcast_map)
                   /\ infered_broadcast_map' = Retained(infered_broadcast_map)
                   /\ frames_sender_map' = Retained(frames_broadcast_map)
                   /\ infered_sender_map' = Retained(infered_broadcast_map)
              ELSE UNCHANGED <<frames_broadcast_map, infered_broadcast_map,
                               frames_sender_map, infered_sender_map>>
    /\ UNCHANGED <<hg_pc, hg_connected, hg_held, hg_pub, router_pc, observed,
                   sub_st, sub_kind, sub_name, sub_ch, sub_recv, sub_early,
                   sub_lost>>

(* ------------------------------------------------------------------ *)
(* hour_glass/endpoints.rs                                              *)
(* ------------------------------------------------------------------ *)
\* get_broadcast_receiver / get_infered_receiver_by_id: subscribe to the
\* channel of the entry, or create the channel and keep its first receiver
Attach(s, name, kind, map) ==
    /\ sub_st[s] = "idle"
    /\ sub_st' = [sub_st EXCEPT ![s] = "live"]
    /\ sub_kind' = [sub_kind EXCEPT ![s] = kind]
    /\ sub_name' = [sub_name EXCEPT ![s] = name]
    /\ sub_ch' = [sub_ch EXCEPT ![s] =
                     IF map[hashed(name)] # NoCh THEN map[hashed(name)] ELSE s]
    /\ sub_early' = [sub_early EXCEPT ![s] = (hg_pub = <<>>)]

named_stream(s, name) ==
    /\ UNCHANGED <<notHG, METER>>
    /\ Attach(s, name, "raw", frames_broadcast_map)
    /\ frames_broadcast_map' =
          [frames_broadcast_map EXCEPT ![hashed(name)] =
              IF @ # NoCh THEN @ ELSE s]
    /\ UNCHANGED <<hg_pc, hg_connected, hg_held, hg_pub, incoming, infered_broadcast_map,
                   router_pc, router_i, frames_sender_map, infered_sender_map,
                   infer_q, observed, sub_q, sub_lag, sub_recv, sub_lost,
                   hg_offer>>

faces_stream(s, name) ==
    /\ UNCHANGED <<notHG, METER>>
    /\ Attach(s, name, "infered", infered_broadcast_map)
    /\ infered_broadcast_map' =
          [infered_broadcast_map EXCEPT ![hashed(name)] =
              IF @ # NoCh THEN @ ELSE s]
    /\ UNCHANGED <<hg_pc, hg_connected, hg_held, hg_pub, incoming, frames_broadcast_map,
                   router_pc, router_i, frames_sender_map, infered_sender_map,
                   infer_q, observed, sub_q, sub_lag, sub_recv, sub_lost,
                   hg_offer>>

(* ------------------------------------------------------------------ *)
(* meter.rs                                                             *)
(* ------------------------------------------------------------------ *)
\* calls of tick_raw and tick_infered in a run, all together
MeterMaxTicks == 4

\* all of hgVars but METER
hgNotMeter == <<hg_pc, hg_connected, hg_held, hg_pub, incoming,
                frames_broadcast_map, infered_broadcast_map, router_pc,
                router_i, frames_sender_map, infered_sender_map, infer_q,
                observed, sub_st, sub_kind, sub_name, sub_ch, sub_q, sub_lag,
                sub_recv, sub_early, sub_lost, hg_offer>>

\* raw_frames.fetch_add(1, Relaxed)
tick_raw(meter) == [meter EXCEPT !.raw_frames = @ + 1]

\* infered_frames.fetch_add(1, Relaxed)
tick_infered(meter) == [meter EXCEPT !.infered_frames = @ + 1]

\* a read of the counter that leaves it as it is
get_reset_raw_load(meter) ==
    [value |-> meter.raw_frames, meter |-> meter]

\* raw_frames.swap(0, Relaxed): the value before, and the meter after
get_reset_raw(meter) ==
    [value |-> meter.raw_frames, meter |-> [meter EXCEPT !.raw_frames = 0]]

\* infered_frames.swap(0, Relaxed)
get_reset_infered(meter) ==
    [value |-> meter.infered_frames,
     meter |-> [meter EXCEPT !.infered_frames = 0]]

MeterInit ==
    /\ meter_pc = "raw"
    /\ meter_ticks = [raw_frames |-> 0, infered_frames |-> 0]
    /\ meter_got = [raw_frames |-> 0, infered_frames |-> 0]

\* a stream task calls METER.tick_raw()
MeterTickRaw ==
    /\ UNCHANGED <<hgNotMeter, mpVars, psVars, nnVars, mpInferedVars,
                   brokerVars>>
    /\ meter_ticks.raw_frames + meter_ticks.infered_frames < MeterMaxTicks
    /\ METER' = tick_raw(METER)
    /\ meter_ticks' = [meter_ticks EXCEPT !.raw_frames = @ + 1]
    /\ UNCHANGED <<meter_pc, meter_got>>

\* a stream task calls METER.tick_infered()
MeterTickInfered ==
    /\ UNCHANGED <<hgNotMeter, mpVars, psVars, nnVars, mpInferedVars,
                   brokerVars>>
    /\ meter_ticks.raw_frames + meter_ticks.infered_frames < MeterMaxTicks
    /\ METER' = tick_infered(METER)
    /\ meter_ticks' = [meter_ticks EXCEPT !.infered_frames = @ + 1]
    /\ UNCHANGED <<meter_pc, meter_got>>

\* the logger task: let raw_frames = METER.get_reset_raw();
MeterLogRaw ==
    /\ UNCHANGED <<hgNotMeter, mpVars, psVars, nnVars, mpInferedVars,
                   brokerVars>>
    /\ meter_pc = "raw"
    /\ METER' = get_reset_raw(METER).meter
    /\ meter_got' = [meter_got EXCEPT
                        !.raw_frames = @ + get_reset_raw(METER).value]
    /\ meter_pc' = "infered"
    /\ UNCHANGED meter_ticks

\* the logger task: let infered_frames = METER.get_reset_infered();
MeterLogInfered ==
    /\ UNCHANGED <<hgNotMeter, mpVars, psVars, nnVars, mpInferedVars,
                   brokerVars>>
    /\ meter_pc = "infered"
    /\ METER' = get_reset_infered(METER).meter
    /\ meter_got' = [meter_got EXCEPT
                        !.infered_frames = @ + get_reset_infered(METER).value]
    /\ meter_pc' = "raw"
    /\ UNCHANGED meter_ticks

MeterNext ==
    \/ MeterTickRaw
    \/ MeterTickInfered
    \/ MeterLogRaw
    \/ MeterLogInfered

\* the closure of the stream's map: METER.tick_raw() in named_stream,
\* METER.tick_infered() in faces_stream, once for every item of the stream
tick(meter, kind) ==
    IF kind = "raw" THEN tick_raw(meter) ELSE tick_infered(meter)

\* the response body takes the next value of the BroadcastStream, which
\* passes through the closure of the stream's map
SubRecv(s) ==
    /\ UNCHANGED notHG
    /\ sub_st[s] = "live"
    /\ sub_lag[s] = 0
    /\ sub_q[s] # <<>>
    /\ METER' = tick(METER, sub_kind[s])
    /\ sub_recv' = [sub_recv EXCEPT ![s] = Append(@, Head(sub_q[s]))]
    /\ sub_q' = [sub_q EXCEPT ![s] = Tail(@)]
    /\ UNCHANGED <<hg_pc, hg_connected, hg_held, hg_pub, incoming, frames_broadcast_map,
                   infered_broadcast_map, router_pc, router_i,
                   frames_sender_map, infered_sender_map, infer_q, observed,
                   sub_st, sub_kind, sub_name, sub_ch, sub_lag, sub_early,
                   sub_lost, hg_offer>>

\* the BroadcastStream yields Err(Lagged) as an item of the body stream: the
\* HTTP layer (outside the repository) either aborts the response, which
\* drops the receiver, or the receiver goes on with the oldest value still
\* buffered
SubLagged(s) ==
    /\ UNCHANGED notHG
    /\ sub_st[s] = "live"
    /\ sub_lag[s] > 0
    /\ METER' = tick(METER, sub_kind[s])
    /\ sub_lag' = [sub_lag EXCEPT ![s] = 0]
    /\ sub_lost' = [sub_lost EXCEPT ![s] = TRUE]
    /\ \E aborted \in BOOLEAN :
          /\ sub_st' = [sub_st EXCEPT ![s] = IF aborted THEN "gone" ELSE @]
          /\ sub_q' = [sub_q EXCEPT ![s] = IF aborted THEN <<>> ELSE @]
    /\ UNCHANGED <<hg_pc, hg_connected, hg_held, hg_pub, incoming, frames_broadcast_map,
                   infered_broadcast_map, router_pc, router_i,
                   frames_sender_map, infered_sender_map, infer_q, observed,
                   sub_kind, sub_name, sub_ch, sub_recv,
                   sub_early, hg_offer>>

\* the client goes away: the response future and its receiver are dropped
SubDisconnect(s) ==
    /\ UNCHANGED <<notHG, METER>>
    /\ sub_st[s] = "live"
    /\ sub_st' = [sub_st EXCEPT ![s] = "gone"]
    /\ sub_q' = [sub_q EXCEPT ![s] = <<>>]
    /\ sub_lag' = [sub_lag EXCEPT ![s] = 0]
    /\ UNCHANGED <<hg_pc, hg_connected, hg_held, hg_pub, incoming, frames_broadcast_map,
                   infered_broadcast_map, router_pc, router_i,
                   frames_sender_map, infered_sender_map, infer_q, observed,
                   sub_kind, sub_name, sub_ch, sub_recv, sub_early, sub_lost, hg_offer>>

(* ------------------------------------------------------------------ *)
(* the consumer of INFER_IMAGES_CHANNEL                                 *)
(* ------------------------------------------------------------------ *)
\* take one job; a failed job is dropped, a result is wrapped and sent to
\* the broadcast sender the job carries
HgInfererRun ==
    /\ UNCHANGED <<notHG, METER>>
    /\ infer_q # <<>>
    /\ LET job == Head(infer_q)
       IN  /\ infer_q' = Tail(infer_q)
           /\ observed' = Append(observed, job[3])
           /\ \/ UNCHANGED <<sub_q, sub_lag>>
              \/ /\ sub_q' = SendQ(job[4],
                                   as_jpeg_stream_item(process_frame(job[3])))
                 /\ sub_lag' = SendLag(job[4])
                 /\ Receivers(job[4]) # {}
    /\ UNCHANGED <<hg_pc, hg_connected, hg_held, hg_pub, incoming, frames_broadcast_map,
                   infered_broadcast_map, router_pc, router_i,
                   frames_sender_map, infered_sender_map, sub_st, sub_kind,
                   sub_name, sub_ch, sub_recv, sub_early, sub_lost, hg_offer>>

\* the hour-glass server fed frames of several channel ids
HGIdsNext ==
    \/ HgSocketReadIds
    \/ HgSocketSend
    \/ RouterStart
    \/ RouterRecv
    \/ \E s \in Subs, name \in Names : named_stream(s, name)
    \/ \E s \in Subs, name \in Names : faces_stream(s, name)
    \/ \E s \in Subs : SubRecv(s)
    \/ \E s \in Subs : SubLagged(s)
    \/ \E s \in Subs : SubDisconnect(s)
    \/ HgInfererRun

HGNext ==
    \/ HgSocketRead
    \/ HgSocketSend
    \/ RouterStart
    \/ RouterRecv
    \/ \E s \in Subs, name \in Names : named_stream(s, name)
    \/ \E s \in Subs, name \in Names : faces_stream(s, name)
    \/ \E s \in Subs : SubRecv(s)
    \/ \E s \in Subs : SubLagged(s)
    \/ \E s \in Subs : SubDisconnect(s)
    \/ HgInfererRun

(* ================================================================== *)
(* The message-passing server (msg_passing/)                            *)
(* ================================================================== *)
\* frames the publisher connections send in a run, all together
MpMaxFrames == 2
\* slots of a viewer's mpsc channel (20 in msg_passing/endpoints.rs), scaled
MpSinkCap == 1

MpConns == {1, 2}
MpSubs == {1, 2}
\* "no publisher" in tcp_tasks_comm
NoConn == 0

\* the payload of the k-th frame of connection c
MpJpeg(c, k) == Jpeg(10 * c + k)

\* the connection a payload comes from
MpOrigin(item) == item[2].n \div 10

MPInit ==
    /\ mp_pc = [c \in MpConns |-> "connect"]
    /\ mp_name = [c \in MpConns |-> "a"]
    /\ mp_nsent = [c \in MpConns |-> 0]
    /\ mp_senders_q = [c \in MpConns |-> <<>>]
    /\ mp_listeners = [c \in MpConns |-> <<>>]
    /\ mp_failed = [c \in MpConns |-> <<>>]
    /\ mp_idx = [c \in MpConns |-> 1]
    /\ mp_cur = [c \in MpConns |-> <<>>]
    /\ mp_frame_q = <<>>
    /\ mp_tcp_q = <<>>
    /\ mp_frames_sender_map = [id \in Ids |-> <<>>]
    /\ mp_tcp_tasks_comm = [id \in Ids |-> NoConn]
    /\ mp_expired = {}
    /\ mp_sub_st = [s \in MpSubs |-> "idle"]
    /\ mp_sub_name = [s \in MpSubs |-> "a"]
    /\ mp_sink_q = [s \in MpSubs |-> <<>>]
    /\ mp_sub_recv = [s \in MpSubs |-> <<>>]
    /\ mp_infered_q = <<>>
    /\ mp_infered_frames_sender_map = [id \in Ids |-> <<>>]
    /\ mp_sub_kind = [s \in MpSubs |-> "raw"]

(* ------------------------------------------------------------------ *)
(* msg_passing/endpoints.rs                                             *)
(* ------------------------------------------------------------------ *)
\* named_stream: a fresh channel whose sender goes to the registry
mp_named_stream(s, name) ==
    /\ UNCHANGED notMP
    /\ mp_sub_st[s] = "idle"
    /\ mp_sub_st' = [mp_sub_st EXCEPT ![s] = "live"]
    /\ mp_sub_name' = [mp_sub_name EXCEPT ![s] = name]
    /\ mp_frame_q' = Append(mp_frame_q, <<name, s>>)
    /\ UNCHANGED <<mp_pc, mp_name, mp_nsent, mp_senders_q, mp_listeners,
                   mp_failed, mp_idx, mp_cur, mp_tcp_q, mp_frames_sender_map,
                   mp_tcp_tasks_comm, mp_expired, mp_sink_q, mp_sub_recv>>

\* the response body takes the next item of the ReceiverStream
MpSubRecv(s) ==
    /\ UNCHANGED notMP
    /\ mp_sub_st[s] = "live"
    /\ mp_sink_q[s] # <<>>
    /\ mp_sub_recv' = [mp_sub_recv EXCEPT ![s] = Append(@, Head(mp_sink_q[s]))]
    /\ mp_sink_q' = [mp_sink_q EXCEPT ![s] = Tail(@)]
    /\ UNCHANGED <<mp_pc, mp_name, mp_nsent, mp_senders_q, mp_listeners,
                   mp_failed, mp_idx, mp_cur, mp_frame_q, mp_tcp_q,
                   mp_frames_sender_map, mp_tcp_tasks_comm, mp_expired,
                   mp_sub_st, mp_sub_name>>

\* the client goes away: the receiver is dropped
MpSubDisconnect(s) ==
    /\ UNCHANGED notMP
    /\ mp_sub_st[s] = "live"
    /\ mp_sub_st' = [mp_sub_st EXCEPT ![s] = "gone"]
    /\ mp_sink_q' = [mp_sink_q EXCEPT ![s] = <<>>]
    /\ UNCHANGED <<mp_pc, mp_name, mp_nsent, mp_senders_q, mp_listeners,
                   mp_failed, mp_idx, mp_cur, mp_frame_q, mp_tcp_q,
                   mp_frames_sender_map, mp_tcp_tasks_comm, mp_expired,
                   mp_sub_name, mp_sub_recv>>

(* ------------------------------------------------------------------ *)
(* msg_passing/router.rs                                                *)
(* ------------------------------------------------------------------ *)
\* tcp_task.send(..).await.ok(): the list reaches the task unless the task
\* has dropped its receiver
SendToTask(q, c, senders) ==
    IF c # NoConn /\ mp_pc[c] # "panicked"
    THEN [q EXCEPT ![c] = Append(@, senders)]
    ELSE q

\* the frame_stream_listener_rx branch of Registry::run
RegistryFrameListener ==
    /\ UNCHANGED notMP
    /\ mp_frame_q # <<>>
    /\ LET name == Head(mp_frame_q)[1]
           tx == Head(mp_frame_q)[2]
           id == hashed(name)
       IN  /\ mp_frame_q' = Tail(mp_frame_q)
           /\ mp_expired' = mp_expired \cup {<<"Frame", id, tx>>}
           /\ mp_frames_sender_map' =
                 [mp_frames_sender_map EXCEPT ![id] = Append(@, tx)]
           /\ mp_senders_q' =
                 SendToTask(mp_senders_q, mp_tcp_tasks_comm[id], <<tx>>)
    /\ UNCHANGED <<mp_pc, mp_name, mp_nsent, mp_listeners, mp_failed, mp_idx,
                   mp_cur, mp_tcp_q, mp_tcp_tasks_comm, mp_sub_st,
                   mp_sub_name, mp_sink_q, mp_sub_recv>>

\* the tcp_tasks_comm_rx branch of Registry::run
RegistryTcpTask ==
    /\ UNCHANGED notMP
    /\ mp_tcp_q # <<>>
    /\ LET name == Head(mp_tcp_q)[1]
           tx == Head(mp_tcp_q)[2]
           id == hashed(name)
       IN  /\ mp_tcp_q' = Tail(mp_tcp_q)
           /\ mp_expired' = mp_expired \cup {<<"Tcp", id, tx>>}
           /\ mp_tcp_tasks_comm' = [mp_tcp_tasks_comm EXCEPT ![id] = tx]
           /\ mp_senders_q' =
                 LET q == IF mp_frames_sender_map[id] # <<>>
                          THEN SendToTask(mp_senders_q, tx,
                                          mp_frames_sender_map[id])
                          ELSE mp_senders_q
                 IN  IF mp_infered_frames_sender_map[id] # <<>>
                     THEN SendToTask(q, tx, mp_infered_frames_sender_map[id])
                     ELSE q
    /\ UNCHANGED <<mp_pc, mp_name, mp_nsent, mp_listeners, mp_failed, mp_idx,
                   mp_cur, mp_frame_q, mp_frames_sender_map, mp_sub_st,
                   mp_sub_name, mp_sink_q, mp_sub_recv>>

\* tx.closed() has completed: the other end of the channel is dropped
Closed(fut) ==
    IF fut[1] \in {"Frame", "Infered"} THEN mp_sub_st[fut[3]] = "gone"
    ELSE mp_pc[fut[3]] = "panicked"

\* the expired_sender_ids branch of Registry::run: the whole entry of the
\* id goes
RegistryExpired(fut) ==
    /\ UNCHANGED notMP
    /\ fut \in mp_expired
    /\ fut[1] # "Infered"
    /\ Closed(fut)
    /\ mp_expired' = mp_expired \ {fut}
    /\ IF fut[1] = "Frame"
       THEN /\ mp_frames_sender_map' =
                  [mp_frames_sender_map EXCEPT ![fut[2]] = <<>>]
            /\ UNCHANGED mp_tcp_tasks_comm
       ELSE /\ mp_tcp_tasks_comm' =
                  [mp_tcp_tasks_comm EXCEPT ![fut[2]] = NoConn]
            /\ UNCHANGED mp_frames_sender_map
    /\ UNCHANGED <<mp_pc, mp_name, mp_nsent, mp_senders_q, mp_listeners,
                   mp_failed, mp_idx, mp_cur, mp_frame_q, mp_tcp_q, mp_sub_st,
                   mp_sub_name, mp_sink_q, mp_sub_recv>>

\* a sink handed to the Registry through infered_stream_listener_tx of
\* RegistryComm: a fresh channel whose sender goes to the annotated side
infered_stream_listener(s, name) ==
    /\ UNCHANGED <<hgVars, psVars, nnVars, meterVars, brokerVars>>
    /\ mp_sub_st[s] = "idle"
    /\ mp_sub_st' = [mp_sub_st EXCEPT ![s] = "live"]
    /\ mp_sub_name' = [mp_sub_name EXCEPT ![s] = name]
    /\ mp_sub_kind' = [mp_sub_kind EXCEPT ![s] = "infered"]
    /\ mp_infered_q' = Append(mp_infered_q, <<name, s>>)
    /\ UNCHANGED <<mp_pc, mp_name, mp_nsent, mp_senders_q, mp_listeners,
                   mp_failed, mp_idx, mp_cur, mp_frame_q, mp_tcp_q,
                   mp_frames_sender_map, mp_tcp_tasks_comm, mp_expired,
                   mp_sink_q, mp_sub_recv, mp_infered_frames_sender_map>>

\* the infered_stream_listener_rx branch of Registry::run
RegistryInferedListener ==
    /\ UNCHANGED <<hgVars, psVars, nnVars, meterVars, brokerVars>>
    /\ mp_infered_q # <<>>
    /\ LET name == Head(mp_infered_q)[1]
           tx == Head(mp_infered_q)[2]
           id == hashed(name)
       IN  /\ mp_infered_q' = Tail(mp_infered_q)
           /\ mp_expired' = mp_expired \cup {<<"Infered", id, tx>>}
           /\ mp_infered_frames_sender_map' =
                 [mp_infered_frames_sender_map EXCEPT ![id] = Append(@, tx)]
           /\ mp_senders_q' =
                 SendToTask(mp_senders_q, mp_tcp_tasks_comm[id], <<tx>>)
    /\ UNCHANGED <<mp_pc, mp_name, mp_nsent, mp_listeners, mp_failed, mp_idx,
                   mp_cur, mp_frame_q, mp_tcp_q, mp_frames_sender_map,
                   mp_tcp_tasks_comm, mp_sub_st, mp_sub_name, mp_sink_q,
                   mp_sub_recv, mp_sub_kind>>

\* the MapId::Infered arm of the expired_sender_ids branch
RegistryExpiredInfered(fut) ==
    /\ UNCHANGED <<hgVars, psVars, nnVars, meterVars, brokerVars>>
    /\ fut \in mp_expired
    /\ fut[1] = "Infered"
    /\ Closed(fut)
    /\ mp_expired' = mp_expired \ {fut}
    /\ mp_infered_frames_sender_map' =
          [mp_infered_frames_sender_map EXCEPT ![fut[2]] = <<>>]
    /\ UNCHANGED <<mp_pc, mp_name, mp_nsent, mp_senders_q, mp_listeners,
                   mp_failed, mp_idx, mp_cur, mp_frame_q, mp_tcp_q,
                   mp_frames_sender_map, mp_tcp_tasks_comm, mp_sub_st,
                   mp_sub_name, mp_sink_q, mp_sub_recv, mp_infered_q,
                   mp_sub_kind>>


(* ------------------------------------------------------------------ *)
(* msg_passing/data_socket.rs                                           *)
(* ------------------------------------------------------------------ *)
\* Vec::swap_remove(i) for an index i (0-based) below the length
swap_remove(v, i) ==
    IF i + 1 = Len(v)
    THEN SubSeq(v, 1, Len(v) - 1)
    ELSE [k \in 1..(Len(v) - 1) |-> IF k = i + 1 THEN v[Len(v)] ELSE v[k]]

RECURSIVE RemoveFailed(_, _)
\* for idx in failed_senders.iter().rev() { listeners.swap_remove(*idx); }
\* gives the listeners left, or the panic of an index out of bounds
RemoveFailed(v, failed) ==
    IF failed = <<>>
    THEN [panic |-> FALSE, v |-> v]
    ELSE LET idx == failed[Len(failed)]
         IN  IF idx >= Len(v)
             THEN [panic |-> TRUE, v |-> v]
             ELSE RemoveFailed(swap_remove(v, idx),
                               SubSeq(failed, 1, Len(failed) - 1))

\* the first message is a ConnectReq: the task announces itself to the
\* registry with the sender of its listener channel
MpConnect(c, name) ==
    /\ UNCHANGED notMP
    /\ mp_pc[c] = "connect"
    /\ mp_name' = [mp_name EXCEPT ![c] = name]
    /\ mp_tcp_q' = Append(mp_tcp_q, <<name, c>>)
    /\ mp_pc' = [mp_pc EXCEPT ![c] = "run"]
    /\ UNCHANGED <<mp_nsent, mp_senders_q, mp_listeners, mp_failed, mp_idx,
                   mp_cur, mp_frame_q, mp_frames_sender_map,
                   mp_tcp_tasks_comm, mp_expired, mp_sub_st, mp_sub_name,
                   mp_sink_q, mp_sub_recv>>

\* select!: senders_rx.recv() yields new listeners
MpRecvListeners(c) ==
    /\ UNCHANGED notMP
    /\ mp_pc[c] \in {"run", "ended"}
    /\ mp_senders_q[c] # <<>>
    /\ mp_listeners' = [mp_listeners EXCEPT ![c] = @ \o Head(mp_senders_q[c])]
    /\ mp_senders_q' = [mp_senders_q EXCEPT ![c] = Tail(@)]
    /\ UNCHANGED <<mp_pc, mp_name, mp_nsent, mp_failed, mp_idx, mp_cur,
                   mp_frame_q, mp_tcp_q, mp_frames_sender_map,
                   mp_tcp_tasks_comm, mp_expired, mp_sub_st, mp_sub_name,
                   mp_sink_q, mp_sub_recv>>

\* select!: transport.next() yields None (the stream has ended) or an error
\* of the codec: the arm logs and the loop goes on, with no frame to come
MpStreamEnd(c) ==
    /\ UNCHANGED notMP
    /\ mp_pc[c] = "run"
    /\ mp_pc' = [mp_pc EXCEPT ![c] = "ended"]
    /\ UNCHANGED <<mp_name, mp_nsent, mp_senders_q, mp_listeners, mp_failed,
                   mp_idx, mp_cur, mp_frame_q, mp_tcp_q, mp_frames_sender_map,
                   mp_tcp_tasks_comm, mp_expired, mp_sub_st, mp_sub_name,
                   mp_sink_q, mp_sub_recv>>

\* the end of the send loop: the failed indices are removed
EndFanout(c, failed) ==
    LET r == RemoveFailed(mp_listeners[c], failed)
    IN  /\ mp_pc' = [mp_pc EXCEPT ![c] = IF r.panic THEN "panicked" ELSE "run"]
        /\ mp_listeners' = [mp_listeners EXCEPT ![c] = r.v]
        /\ mp_idx' = [mp_idx EXCEPT ![c] = 1]

\* select!: transport.next() yields a frame message; the send loop starts
MpFrame(c) ==
    /\ UNCHANGED notMP
    /\ mp_pc[c] = "run"
    /\ mp_nsent[1] + mp_nsent[2] < MpMaxFrames
    /\ mp_nsent' = [mp_nsent EXCEPT ![c] = @ + 1]
    /\ mp_cur' = [mp_cur EXCEPT ![c] =
                     as_jpeg_stream_item(MpJpeg(c, mp_nsent[c] + 1))]
    /\ IF mp_listeners[c] = <<>>
       THEN EndFanout(c, mp_failed[c])
       ELSE /\ mp_pc' = [mp_pc EXCEPT ![c] = "fanout"]
            /\ mp_idx' = [mp_idx EXCEPT ![c] = 1]
            /\ UNCHANGED mp_listeners
    /\ UNCHANGED <<mp_name, mp_senders_q, mp_failed, mp_frame_q, mp_tcp_q,
                   mp_frames_sender_map, mp_tcp_tasks_comm, mp_expired,
                   mp_sub_st, mp_sub_name, mp_sink_q, mp_sub_recv>>

\* sender.send(data.clone()).await of the send loop: an error if the
\* receiver is dropped, otherwise it completes once the channel has a slot
MpSendOne(c) ==
    /\ UNCHANGED notMP
    /\ mp_pc[c] = "fanout"
    /\ LET s == mp_listeners[c][mp_idx[c]]
           gone == mp_sub_st[s] = "gone"
           failed == IF gone THEN Append(mp_failed[c], mp_idx[c] - 1)
                     ELSE mp_failed[c]
       IN  /\ gone \/ Len(mp_sink_q[s]) < MpSinkCap
           /\ mp_sink_q' = IF gone THEN mp_sink_q
                           ELSE [mp_sink_q EXCEPT ![s] = Append(@, mp_cur[c])]
           /\ mp_failed' = [mp_failed EXCEPT ![c] = failed]
           /\ IF mp_idx[c] = Len(mp_listeners[c])
              THEN EndFanout(c, failed)
              ELSE /\ mp_idx' = [mp_idx EXCEPT ![c] = @ + 1]
                   /\ UNCHANGED <<mp_pc, mp_listeners>>
    /\ UNCHANGED <<mp_name, mp_nsent, mp_senders_q, mp_cur, mp_frame_q,
                   mp_tcp_q, mp_frames_sender_map, mp_tcp_tasks_comm,
                   mp_expired, mp_sub_st, mp_sub_name, mp_sub_recv>>

\* the connections of the runs with annotated sinks
MpInferedConns == {1}

MPInferedNext ==
    \/ \E c \in MpInferedConns, name \in Names : MpConnect(c, name)
    \/ \E c \in MpInferedConns : MpRecvListeners(c)
    \/ \E c \in MpInferedConns : MpFrame(c)
    \/ \E c \in MpInferedConns : MpStreamEnd(c)
    \/ \E c \in MpInferedConns : MpSendOne(c)
    \/ \E s \in MpSubs, name \in Names : mp_named_stream(s, name)
    \/ \E s \in MpSubs, name \in Names : infered_stream_listener(s, name)
    \/ \E s \in MpSubs : MpSubRecv(s)
    \/ \E s \in MpSubs : MpSubDisconnect(s)
    \/ RegistryFrameListener
    \/ RegistryInferedListener
    \/ RegistryTcpTask
    \/ \E fut \in mp_expired : RegistryExpired(fut)
    \/ \E fut \in mp_expired : RegistryExpiredInfered(fut)

MPNext ==
    \/ \E c \in MpConns, name \in Names : MpConnect(c, name)
    \/ \E c \in MpConns : MpRecvListeners(c)
    \/ \E c \in MpConns : MpFrame(c)
    \/ \E c \in MpConns : MpStreamEnd(c)
    \/ \E c \in MpConns : MpSendOne(c)
    \/ \E s \in MpSubs, name \in Names : mp_named_stream(s, name)
    \/ \E s \in MpSubs : MpSubRecv(s)
    \/ \E s \in MpSubs : MpSubDisconnect(s)
    \/ RegistryFrameListener
    \/ RegistryTcpTask
    \/ \E fut \in mp_expired : RegistryExpired(fut)

(* ================================================================== *)
(* The publish/subscribe server (data_socket.rs, pubsub.rs, inferer.rs) *)
(* ================================================================== *)
\* frames the publisher connection sends
PsMaxFrames == 3
\* slots of a broadcast channel (20 in pubsub.rs, 10 in inferer.rs), scaled
PsBroadcastCap == 2
\* slots of the mpsc channel of a name
MpscCap == 1
\* slots of the infer_queue channel
InferQueueCap == 1

PsSubs == {1, 2}

PSInit ==
    /\ ps_pc = "connect"
    /\ ps_nsent = 0
    /\ ps_cur = FrameMsg(PubName, Jpeg(0))
    /\ ps_broadcast_map = {}
    /\ ps_mpsc_map = [n \in Names |-> "none"]
    /\ ps_mpsc_q = [n \in Names |-> <<>>]
    /\ ps_channel_map = [n \in Names |-> NoCh]
    /\ ps_broker_pc = "tick"
    /\ ps_todo = {}
    /\ ps_held = <<>>
    /\ ps_infer_queue = <<>>
    /\ ps_unsendable = <<>>
    /\ ps_observed = <<>>
    /\ ps_sub_st = [s \in PsSubs |-> "idle"]
    /\ ps_sub_kind = [s \in PsSubs |-> "raw"]
    /\ ps_sub_name = [s \in PsSubs |-> "a"]
    /\ ps_sub_ch = [s \in PsSubs |-> NoCh]
    /\ ps_sub_q = [s \in PsSubs |-> <<>>]
    /\ ps_sub_lag = [s \in PsSubs |-> 0]
    /\ ps_sub_recv = [s \in PsSubs |-> <<>>]
    /\ ps_sub_from = [s \in PsSubs |-> 0]
    /\ ps_err = FALSE

\* broadcast::Sender::send to the receivers R: a receiver that already holds
\* the capacity loses its oldest value
PsSendQ(R, item) ==
    [s \in PsSubs |->
        IF s \in R
        THEN IF Len(ps_sub_q[s]) < PsBroadcastCap
             THEN Append(ps_sub_q[s], item)
             ELSE Append(Tail(ps_sub_q[s]), item)
        ELSE ps_sub_q[s]]

PsSendLag(R) ==
    [s \in PsSubs |->
        IF s \in R /\ Len(ps_sub_q[s]) = PsBroadcastCap
        THEN ps_sub_lag[s] + 1
        ELSE ps_sub_lag[s]]

\* a subscribe that hands the new receiver the value sent last
subscribe_replay(name) ==
    IF name = PubName /\ ps_nsent > 0 THEN <<ps_cur.data>> ELSE <<>>

\* Sender::subscribe / broadcast::channel: the new receiver holds no value
\* sent before it was created
subscribe(name) == <<>>

\* receivers of the raw broadcast channel of a name
PsRawSubs(name) ==
    {s \in PsSubs : /\ ps_sub_st[s] = "live" /\ ps_sub_kind[s] = "raw"
                    /\ ps_sub_name[s] = name}

\* receivers of an infered broadcast channel
PsInferedSubs(ch) ==
    {s \in PsSubs : /\ ps_sub_st[s] = "live" /\ ps_sub_kind[s] = "infered"
                    /\ ps_sub_ch[s] = ch}

\* NamedPubSub::get_mpsc_sender: the entry of the name is created with its
\* receiver if there is none
get_mpsc_sender(map, name) ==
    [map EXCEPT ![name] = IF @ = "none" THEN "some" ELSE @]

\* a take that leaves the receiver of an existing entry in the map
get_mpsc_receiver_keep(map, name) ==
    [map |-> [map EXCEPT ![name] = IF @ = "none" THEN "taken" ELSE @],
     rx |-> map[name] # "taken"]

\* NamedPubSub::get_mpsc_receiver: rx_opt.take() of the entry, or a new
\* entry without receiver; rx tells whether the caller gets Some(receiver)
get_mpsc_receiver(map, name) ==
    [map |-> [map EXCEPT ![name] = "taken"],
     rx |-> map[name] # "taken"]

\* NamedPubSub::return_mpsc_receiver: rx_opt.replace(rx) if the name has an
\* entry
return_mpsc_receiver(map, name) ==
    IF map[name] # "none" THEN [map EXCEPT ![name] = "some"] ELSE map

\* a receive that leaves the value in the channel
mpsc_peek(q) == q

\* mpsc::Receiver::recv: the oldest value leaves the channel
mpsc_recv(q) == Tail(q)

(* ------------------------------------------------------------------ *)
(* data_socket.rs                                                       *)
(* ------------------------------------------------------------------ *)
\* the first message is a ConnectReq: the task gets its two senders
PsConnect ==
    /\ UNCHANGED <<notPS, ps_sub_from, ps_err>>
    /\ ps_pc = "connect"
    /\ ps_pc' = "read"
    /\ ps_broadcast_map' = ps_broadcast_map \cup {PubName}
    /\ ps_mpsc_map' = get_mpsc_sender(ps_mpsc_map, PubName)
    /\ UNCHANGED <<ps_nsent, ps_cur, ps_mpsc_q, ps_channel_map, ps_broker_pc,
                   ps_todo, ps_held, ps_infer_queue, ps_unsendable,
                   ps_observed, ps_sub_st, ps_sub_kind, ps_sub_name,
                   ps_sub_ch, ps_sub_q, ps_sub_lag, ps_sub_recv>>

\* the first message is no ConnectReq: a FrameMsg gives no name and the
\* function returns; a payload that does not deserialize panics in unwrap
PsReject(kind) ==
    /\ UNCHANGED <<notPS, ps_sub_from, ps_err>>
    /\ ps_pc = "connect"
    /\ ps_pc' = IF kind = "Malformed" THEN "panicked" ELSE "closed"
    /\ UNCHANGED <<ps_nsent, ps_cur, ps_broadcast_map, ps_mpsc_map, ps_mpsc_q,
                   ps_channel_map, ps_broker_pc, ps_todo, ps_held,
                   ps_infer_queue, ps_unsendable, ps_observed, ps_sub_st,
                   ps_sub_kind, ps_sub_name, ps_sub_ch, ps_sub_q, ps_sub_lag,
                   ps_sub_recv>>

\* a payload of the loop does not deserialize: unwrap panics and the task
\* ends
PsMalformed ==
    /\ UNCHANGED <<notPS, ps_sub_from, ps_err>>
    /\ ps_pc = "read"
    /\ ps_pc' = "panicked"
    /\ UNCHANGED <<ps_nsent, ps_cur, ps_broadcast_map, ps_mpsc_map, ps_mpsc_q,
                   ps_channel_map, ps_broker_pc, ps_todo, ps_held,
                   ps_infer_queue, ps_unsendable, ps_observed, ps_sub_st,
                   ps_sub_kind, ps_sub_name, ps_sub_ch, ps_sub_q, ps_sub_lag,
                   ps_sub_recv>>

\* a frame that goes to the inference offer without the raw send
PsRead_noraw(id) ==
    /\ UNCHANGED <<notPS, ps_sub_from, ps_err>>
    /\ ps_pc = "read"
    /\ ps_nsent < PsMaxFrames
    /\ ps_nsent' = ps_nsent + 1
    /\ ps_cur' = FrameMsg(id, Jpeg(ps_nsent + 1))
    /\ UNCHANGED <<ps_sub_q, ps_sub_lag>>
    /\ ps_pc' = "offer"
    /\ UNCHANGED <<ps_broadcast_map, ps_mpsc_map, ps_mpsc_q, ps_channel_map,
                   ps_broker_pc, ps_todo, ps_held, ps_infer_queue,
                   ps_unsendable, ps_observed, ps_sub_st, ps_sub_kind,
                   ps_sub_name, ps_sub_ch, ps_sub_recv>>

\* a FrameMsg arrives, whatever its id: sender_raw.send, then the offer to
\* the mpsc channel starts
PsRead(id) ==
    /\ UNCHANGED <<notPS, ps_sub_from, ps_err>>
    /\ ps_pc = "read"
    /\ ps_nsent < PsMaxFrames
    /\ ps_nsent' = ps_nsent + 1
    /\ ps_cur' = FrameMsg(id, Jpeg(ps_nsent + 1))
    /\ ps_sub_q' = PsSendQ(PsRawSubs(PubName), Jpeg(ps_nsent + 1))
    /\ ps_sub_lag' = PsSendLag(PsRawSubs(PubName))
    /\ ps_pc' = "offer"
    /\ UNCHANGED <<ps_broadcast_map, ps_mpsc_map, ps_mpsc_q, ps_channel_map,
                   ps_broker_pc, ps_todo, ps_held, ps_infer_queue,
                   ps_unsendable, ps_observed, ps_sub_st, ps_sub_kind,
                   ps_sub_name, ps_sub_ch, ps_sub_recv>>

\* sender_infer.send completes within the 10 ms: the channel has a slot
PsOffer ==
    /\ UNCHANGED <<notPS, ps_sub_from, ps_err>>
    /\ ps_pc = "offer"
    /\ Len(ps_mpsc_q[PubName]) < MpscCap
    /\ ps_mpsc_q' = [ps_mpsc_q EXCEPT ![PubName] = Append(@, ps_cur.data)]
    /\ ps_pc' = "read"
    /\ UNCHANGED <<ps_nsent, ps_cur, ps_broadcast_map, ps_mpsc_map,
                   ps_channel_map, ps_broker_pc, ps_todo, ps_held,
                   ps_infer_queue, ps_unsendable, ps_observed, ps_sub_st,
                   ps_sub_kind, ps_sub_name, ps_sub_ch, ps_sub_q, ps_sub_lag,
                   ps_sub_recv>>

\* the 10 ms elapse with the channel still full: the frame is dropped
PsOfferTimeout ==
    /\ UNCHANGED <<notPS, ps_sub_from, ps_err>>
    /\ ps_pc = "offer"
    /\ Len(ps_mpsc_q[PubName]) = MpscCap
    /\ ps_pc' = "read"
    /\ UNCHANGED <<ps_nsent, ps_cur, ps_broadcast_map, ps_mpsc_map, ps_mpsc_q,
                   ps_channel_map, ps_broker_pc, ps_todo, ps_held,
                   ps_infer_queue, ps_unsendable, ps_observed, ps_sub_st,
                   ps_sub_kind, ps_sub_name, ps_sub_ch, ps_sub_q, ps_sub_lag,
                   ps_sub_recv>>

(* ------------------------------------------------------------------ *)
(* endpoints.rs                                                         *)
(* ------------------------------------------------------------------ *)
\* named_stream: a receiver of the raw broadcast channel of the name
ps_named_stream(s, name) ==
    /\ UNCHANGED <<notPS, ps_err>>
    /\ ps_sub_q' = [ps_sub_q EXCEPT ![s] = subscribe(name)]
    /\ ps_sub_from' = [ps_sub_from EXCEPT ![s] = ps_nsent]
    /\ ps_sub_st[s] = "idle"
    /\ ps_sub_st' = [ps_sub_st EXCEPT ![s] = "live"]
    /\ ps_sub_kind' = [ps_sub_kind EXCEPT ![s] = "raw"]
    /\ ps_sub_name' = [ps_sub_name EXCEPT ![s] = name]
    /\ ps_broadcast_map' = ps_broadcast_map \cup {name}
    /\ UNCHANGED <<ps_pc, ps_nsent, ps_cur, ps_mpsc_map, ps_mpsc_q,
                   ps_channel_map, ps_broker_pc, ps_todo, ps_held,
                   ps_infer_queue, ps_unsendable, ps_observed, ps_sub_ch,
                   ps_sub_lag, ps_sub_recv>>

\* face_stream -> InferBroker::subscribe_img_stream, which needs the lock of
\* channel_map: a receiver of the infered channel of the name, created with
\* the mpsc receiver taken from the pubsub if the name has no entry
face_stream(s, name) ==
    /\ UNCHANGED <<notPS, ps_sub_from, ps_err>>
    /\ ps_sub_st[s] = "idle"
    /\ ps_broker_pc = "tick"
    /\ ps_sub_kind' = [ps_sub_kind EXCEPT ![s] = "infered"]
    /\ ps_sub_name' = [ps_sub_name EXCEPT ![s] = name]
    /\ IF ps_channel_map[name] # NoCh
       THEN /\ ps_sub_ch' = [ps_sub_ch EXCEPT ![s] = ps_channel_map[name]]
            /\ ps_sub_st' = [ps_sub_st EXCEPT ![s] = "live"]
            /\ UNCHANGED <<ps_channel_map, ps_mpsc_map>>
       ELSE /\ ps_mpsc_map' = get_mpsc_receiver(ps_mpsc_map, name).map
            /\ IF get_mpsc_receiver(ps_mpsc_map, name).rx
               THEN /\ ps_channel_map' = [ps_channel_map EXCEPT ![name] = s]
                    /\ ps_sub_ch' = [ps_sub_ch EXCEPT ![s] = s]
                    /\ ps_sub_st' = [ps_sub_st EXCEPT ![s] = "live"]
               ELSE /\ ps_sub_st' = [ps_sub_st EXCEPT ![s] = "gone"]
                    /\ UNCHANGED <<ps_channel_map, ps_sub_ch>>
    /\ UNCHANGED <<ps_pc, ps_nsent, ps_cur, ps_broadcast_map, ps_mpsc_q,
                   ps_broker_pc, ps_todo, ps_held, ps_infer_queue,
                   ps_unsendable, ps_observed, ps_sub_q, ps_sub_lag,
                   ps_sub_recv>>

\* rx.recv() yields Ok(item): the item goes out in its multipart wrapping
PsSubRecv(s) ==
    /\ UNCHANGED <<notPS, ps_sub_from, ps_err>>
    /\ ps_sub_st[s] = "live"
    /\ ps_sub_lag[s] = 0
    /\ ps_sub_q[s] # <<>>
    /\ ps_sub_recv' = [ps_sub_recv EXCEPT ![s] =
                          Append(@, as_jpeg_stream_item(Head(ps_sub_q[s])))]
    /\ ps_sub_q' = [ps_sub_q EXCEPT ![s] = Tail(@)]
    /\ UNCHANGED <<ps_pc, ps_nsent, ps_cur, ps_broadcast_map, ps_mpsc_map,
                   ps_mpsc_q, ps_channel_map, ps_broker_pc, ps_todo, ps_held,
                   ps_infer_queue, ps_unsendable, ps_observed, ps_sub_st,
                   ps_sub_kind, ps_sub_name, ps_sub_ch, ps_sub_lag>>

\* every sender of an infered channel is dropped: the entry of channel_map
\* and the clones travelling with the jobs
PsClosed(ch) ==
    /\ \A n \in Names : ps_channel_map[n] # ch
    /\ IF ps_held = <<>> THEN TRUE ELSE ps_held[2] # ch
    /\ \A k \in 1..Len(ps_infer_queue) : ps_infer_queue[k][2] # ch

\* rx.recv() yields an Err, Lagged or Closed: `while let Ok` ends the stream
PsSubEnd(s) ==
    /\ UNCHANGED <<notPS, ps_sub_from, ps_err>>
    /\ ps_sub_st[s] = "live"
    /\ \/ ps_sub_lag[s] > 0
       \/ /\ ps_sub_kind[s] = "infered"
          /\ ps_sub_q[s] = <<>>
          /\ PsClosed(ps_sub_ch[s])
    /\ ps_sub_st' = [ps_sub_st EXCEPT ![s] = "gone"]
    /\ ps_sub_q' = [ps_sub_q EXCEPT ![s] = <<>>]
    /\ ps_sub_lag' = [ps_sub_lag EXCEPT ![s] = 0]
    /\ UNCHANGED <<ps_pc, ps_nsent, ps_cur, ps_broadcast_map, ps_mpsc_map,
                   ps_mpsc_q, ps_channel_map, ps_broker_pc, ps_todo, ps_held,
                   ps_infer_queue, ps_unsendable, ps_observed, ps_sub_kind,
                   ps_sub_name, ps_sub_ch, ps_sub_recv>>

\* the client goes away: the response future and its receiver are dropped
PsSubDisconnect(s) ==
    /\ UNCHANGED <<notPS, ps_sub_from, ps_err>>
    /\ ps_sub_st[s] = "live"
    /\ ps_sub_st' = [ps_sub_st EXCEPT ![s] = "gone"]
    /\ ps_sub_q' = [ps_sub_q EXCEPT ![s] = <<>>]
    /\ ps_sub_lag' = [ps_sub_lag EXCEPT ![s] = 0]
    /\ UNCHANGED <<ps_pc, ps_nsent, ps_cur, ps_broadcast_map, ps_mpsc_map,
                   ps_mpsc_q, ps_channel_map, ps_broker_pc, ps_todo, ps_held,
                   ps_infer_queue, ps_unsendable, ps_observed, ps_sub_kind,
                   ps_sub_name, ps_sub_ch, ps_sub_recv>>

(* ------------------------------------------------------------------ *)
(* inferer.rs                                                           *)
(* ------------------------------------------------------------------ *)
\* InferBroker::run takes the lock of channel_map and starts the for loop
BrokerLock ==
    /\ UNCHANGED <<notPS, ps_sub_from, ps_err>>
    /\ ps_broker_pc = "tick"
    /\ ps_broker_pc' = "loop"
    /\ ps_todo' = {n \in Names : ps_channel_map[n] # NoCh}
    /\ UNCHANGED <<ps_pc, ps_nsent, ps_cur, ps_broadcast_map, ps_mpsc_map,
                   ps_mpsc_q, ps_channel_map, ps_held, ps_infer_queue,
                   ps_unsendable, ps_observed, ps_sub_st, ps_sub_kind,
                   ps_sub_name, ps_sub_ch, ps_sub_q, ps_sub_lag, ps_sub_recv>>

\* one entry of the for loop: img_rx.recv() under its 200 ms timeout yields
\* an image, which the broker goes on to send, or the timeout elapses
BrokerVisit(name) ==
    /\ UNCHANGED <<notPS, ps_sub_from, ps_err>>
    /\ ps_broker_pc = "loop"
    /\ name \in ps_todo
    /\ ps_todo' = ps_todo \ {name}
    /\ IF ps_mpsc_q[name] # <<>>
       THEN /\ ps_held' = <<Head(ps_mpsc_q[name]), ps_channel_map[name], name>>
            /\ ps_mpsc_q' = [ps_mpsc_q EXCEPT ![name] = mpsc_recv(@)]
            /\ ps_broker_pc' = "send"
       ELSE UNCHANGED <<ps_held, ps_mpsc_q, ps_broker_pc>>
    /\ UNCHANGED <<ps_pc, ps_nsent, ps_cur, ps_broadcast_map, ps_mpsc_map,
                   ps_channel_map, ps_infer_queue, ps_unsendable, ps_observed,
                   ps_sub_st, ps_sub_kind, ps_sub_name, ps_sub_ch, ps_sub_q,
                   ps_sub_lag, ps_sub_recv>>

\* infer_queue_tx.send(..).await completes once the channel has a slot
BrokerSend ==
    /\ UNCHANGED <<notPS, ps_sub_from, ps_err>>
    /\ ps_broker_pc = "send"
    /\ Len(ps_infer_queue) < InferQueueCap
    /\ ps_infer_queue' = Append(ps_infer_queue, ps_held)
    /\ ps_held' = <<>>
    /\ ps_broker_pc' = "loop"
    /\ UNCHANGED <<ps_pc, ps_nsent, ps_cur, ps_broadcast_map, ps_mpsc_map,
                   ps_mpsc_q, ps_channel_map, ps_todo, ps_unsendable,
                   ps_observed, ps_sub_st, ps_sub_kind, ps_sub_name,
                   ps_sub_ch, ps_sub_q, ps_sub_lag, ps_sub_recv>>

\* names read from the unsendable channel
Unsendable == {ps_unsendable[k] : k \in 1..Len(ps_unsendable)}

\* the for loop is over: the entries named on the unsendable channel are
\* removed and their mpsc receivers returned; the lock is released
BrokerUnlock ==
    /\ UNCHANGED <<notPS, ps_sub_from, ps_err>>
    /\ ps_broker_pc = "loop"
    /\ ps_todo = {}
    /\ ps_channel_map' = [n \in Names |->
                             IF n \in Unsendable THEN NoCh
                             ELSE ps_channel_map[n]]
    /\ ps_mpsc_map' = [n \in Names |->
                          IF n \in Unsendable /\ ps_channel_map[n] # NoCh
                          THEN return_mpsc_receiver(ps_mpsc_map, n)[n]
                          ELSE ps_mpsc_map[n]]
    /\ ps_unsendable' = <<>>
    /\ ps_broker_pc' = "tick"
    /\ UNCHANGED <<ps_pc, ps_nsent, ps_cur, ps_broadcast_map, ps_mpsc_q,
                   ps_todo, ps_held, ps_infer_queue, ps_observed, ps_sub_st,
                   ps_sub_kind, ps_sub_name, ps_sub_ch, ps_sub_q, ps_sub_lag,
                   ps_sub_recv>>

\* a worker that also reports the name when process_frame has failed
remove_name_on_err(ok, sent) == ~sent

\* the block that sets remove_name in Inferer::run: the name is reported
\* when process_frame was Ok and infered_tx.send failed
remove_name(ok, sent) == ok /\ ~sent

\* Inferer::run takes a job; process_frame fails, or its result goes to the
\* infered channel, whose name is reported if the channel has no receiver
InfererRun ==
    /\ UNCHANGED <<notPS, ps_sub_from>>
    /\ ps_infer_queue # <<>>
    /\ LET job == Head(ps_infer_queue)
           R == PsInferedSubs(job[2])
       IN  /\ ps_infer_queue' = mpsc_recv(ps_infer_queue)
           /\ ps_observed' = Append(ps_observed, job[1])
           /\ \E ok \in BOOLEAN :
                 LET sent == ok /\ R # {}
                 IN  /\ ps_err' = ~ok
                     /\ IF sent
                        THEN /\ ps_sub_q' = PsSendQ(R, process_frame(job[1]))
                             /\ ps_sub_lag' = PsSendLag(R)
                        ELSE UNCHANGED <<ps_sub_q, ps_sub_lag>>
                     /\ ps_unsendable' = IF remove_name(ok, sent)
                                         THEN Append(ps_unsendable, job[3])
                                         ELSE ps_unsendable
    /\ UNCHANGED <<ps_pc, ps_nsent, ps_cur, ps_broadcast_map, ps_mpsc_map,
                   ps_mpsc_q, ps_channel_map, ps_broker_pc, ps_todo, ps_held,
                   ps_sub_st, ps_sub_kind, ps_sub_name, ps_sub_ch,
                   ps_sub_recv>>

PSNext ==
    \/ PsConnect
    \/ \E id \in Names : PsRead(id)
    \/ \E kind \in {"FrameMsg", "Malformed"} : PsReject(kind)
    \/ PsMalformed
    \/ PsOffer
    \/ PsOfferTimeout
    \/ \E s \in PsSubs, name \in Names : ps_named_stream(s, name)
    \/ \E s \in PsSubs, name \in Names : face_stream(s, name)
    \/ \E s \in PsSubs : PsSubRecv(s)
    \/ \E s \in PsSubs : PsSubEnd(s)
    \/ \E s \in PsSubs : PsSubDisconnect(s)
    \/ BrokerLock
    \/ \E name \in Names : BrokerVisit(name)
    \/ BrokerSend
    \/ BrokerUnlock
    \/ InfererRun

(* ================================================================== *)
(* InferBroker::run and Inferer::run over several channels              *)
(* (inferer.rs)                                                         *)
(* ================================================================== *)
\* slots of the unsendable queue (20 in InferBroker::new), scaled
UnsendableCap == 1

\* the channels: each has a publisher, and one annotated viewer that
\* attaches once
IbNames == {"a", "b", "c"}
\* Inferer::run is not sending a name
NoName == "-"

BrokerInit ==
    /\ ib_viewer = [n \in IbNames |-> "none"]
    /\ ib_img_q = {}
    /\ ib_channel_map = {}
    /\ ib_pc = "tick"
    /\ ib_todo = {}
    /\ ib_held = NoName
    /\ ib_infer_queue = <<>>
    /\ ib_inferer = NoName
    /\ ib_unsendable = <<>>

\* a publisher's sender_infer.send goes through: the mpsc channel of the
\* name has a free slot
IbOffer(n) ==
    /\ UNCHANGED notBroker
    /\ n \notin ib_img_q
    /\ ib_img_q' = ib_img_q \cup {n}
    /\ UNCHANGED <<ib_viewer, ib_channel_map, ib_pc, ib_todo, ib_held,
                   ib_infer_queue, ib_inferer, ib_unsendable>>

\* subscribe_img_stream: under the lock of channel_map, the viewer
\* subscribes to the entry of the name or a new entry is inserted
IbSubscribe(n) ==
    /\ UNCHANGED notBroker
    /\ ib_pc = "tick"
    /\ ib_viewer[n] = "none"
    /\ ib_viewer' = [ib_viewer EXCEPT ![n] = "live"]
    /\ ib_channel_map' = ib_channel_map \cup {n}
    /\ UNCHANGED <<ib_img_q, ib_pc, ib_todo, ib_held, ib_infer_queue,
                   ib_inferer, ib_unsendable>>

\* the viewer goes away: its broadcast receiver is dropped
IbLeave(n) ==
    /\ UNCHANGED notBroker
    /\ ib_viewer[n] = "live"
    /\ ib_viewer' = [ib_viewer EXCEPT ![n] = "gone"]
    /\ UNCHANGED <<ib_img_q, ib_channel_map, ib_pc, ib_todo, ib_held,
                   ib_infer_queue, ib_inferer, ib_unsendable>>

\* InferBroker::run takes the lock of channel_map and starts the for loop
IbLock ==
    /\ UNCHANGED notBroker
    /\ ib_pc = "tick"
    /\ ib_pc' = "loop"
    /\ ib_todo' = ib_channel_map
    /\ UNCHANGED <<ib_viewer, ib_img_q, ib_channel_map, ib_held,
                   ib_infer_queue, ib_inferer, ib_unsendable>>

\* one entry of the for loop: img_rx.recv() yields an image, which the
\* broker goes on to send, or its 200 ms timeout elapses
IbVisit(n) ==
    /\ UNCHANGED notBroker
    /\ ib_pc = "loop"
    /\ n \in ib_todo
    /\ ib_todo' = ib_todo \ {n}
    /\ IF n \in ib_img_q
       THEN /\ ib_img_q' = ib_img_q \ {n}
            /\ ib_held' = n
            /\ ib_pc' = "send"
       ELSE UNCHANGED <<ib_img_q, ib_held, ib_pc>>
    /\ UNCHANGED <<ib_viewer, ib_channel_map, ib_infer_queue, ib_inferer,
                   ib_unsendable>>

\* infer_queue_tx.send(..).await completes once the infer queue has a slot
IbSend ==
    /\ UNCHANGED notBroker
    /\ ib_pc = "send"
    /\ Len(ib_infer_queue) < InferQueueCap
    /\ ib_infer_queue' = Append(ib_infer_queue, ib_held)
    /\ ib_held' = NoName
    /\ ib_pc' = "loop"
    /\ UNCHANGED <<ib_viewer, ib_img_q, ib_channel_map, ib_todo, ib_inferer,
                   ib_unsendable>>

\* the end of the pass: the unsendable queue is drained with try_recv, the
\* entries of its names are removed, the lock is released
IbUnlock ==
    /\ UNCHANGED notBroker
    /\ ib_pc = "loop"
    /\ ib_todo = {}
    /\ ib_channel_map' = ib_channel_map \
          {ib_unsendable[k] : k \in 1..Len(ib_unsendable)}
    /\ ib_unsendable' = <<>>
    /\ ib_pc' = "tick"
    /\ UNCHANGED <<ib_viewer, ib_img_q, ib_todo, ib_held, ib_infer_queue,
                   ib_inferer>>

\* Inferer::run takes a job; process_frame fails or infered_tx.send
\* reaches the viewer, or the send fails and the name is to be sent on the
\* unsendable queue
IbInfererRecv ==
    /\ UNCHANGED notBroker
    /\ ib_inferer = NoName
    /\ ib_infer_queue # <<>>
    /\ ib_infer_queue' = Tail(ib_infer_queue)
    /\ \E ok \in BOOLEAN :
          ib_inferer' = IF ok /\ ib_viewer[Head(ib_infer_queue)] # "live"
                        THEN Head(ib_infer_queue)
                        ELSE NoName
    /\ UNCHANGED <<ib_viewer, ib_img_q, ib_channel_map, ib_pc, ib_todo,
                   ib_held, ib_unsendable>>

\* unsendable_tx.send(name).await completes once the queue has a slot
IbInfererSend ==
    /\ UNCHANGED notBroker
    /\ ib_inferer # NoName
    /\ Len(ib_unsendable) < UnsendableCap
    /\ ib_unsendable' = Append(ib_unsendable, ib_inferer)
    /\ ib_inferer' = NoName
    /\ UNCHANGED <<ib_viewer, ib_img_q, ib_channel_map, ib_pc, ib_todo,
                   ib_held, ib_infer_queue>>

BrokerNext ==
    \/ \E n \in IbNames : IbOffer(n)
    \/ \E n \in IbNames : IbSubscribe(n)
    \/ \E n \in IbNames : IbLeave(n)
    \/ IbLock
    \/ \E n \in IbNames : IbVisit(n)
    \/ IbSend
    \/ IbUnlock
    \/ IbInfererRecv
    \/ IbInfererSend

(* ================================================================== *)
(* Postprocessing of the detector (nn.rs)                               *)
(*                                                                      *)
(* Numbers.  A coordinate k stands for the relative coordinate k/Grid,  *)
(* an area n for n/Grid^2.  A confidence c stands for c/10.  IoU values *)
(* and max_iou are exact fractions [num, den] with den > 0.  On these   *)
(* inputs the f32 operations of iou are exact up to the final rounding  *)
(* of the sum with EPS and of the quotient, which change no comparison  *)
(* made here.  NaN is the f32 NaN: every comparison with it is false.   *)
(* ================================================================== *)
\* coordinates run over 0..Grid
Grid == 2
\* candidates of a call of non_maximum_suppression
MaxCand == 3
\* rows K of the tensors of a model output
MaxK == 2
\* 1 / EPS
EpsInv == 10000000

NaN == 1000

Frac(n, d) == [num |-> n, den |-> d]

\* x > y on fractions
FracGt(x, y) == x.num * y.den > y.num * x.den

\* x > y on f32 confidences
f32_gt(x, y) == x # NaN /\ y # NaN /\ x > y

f32_lt(x, y) == x # NaN /\ y # NaN /\ x < y

f32_max(x, y) == IF x > y THEN x ELSE y

f32_min(x, y) == IF x < y THEN x ELSE y

\* the area of [x_top_left, y_top_left, x_bottom_right, y_bottom_right]
bbox_area(bbox) ==
    LET width == bbox[4] - bbox[2]
        height == bbox[3] - bbox[1]
    IN  IF width < 0 \/ height < 0 THEN 0 ELSE width * height

\* overlap_area / (area(a) + area(b) - overlap_area + EPS)
iou(bbox_a, bbox_b) ==
    LET overlap_box == <<f32_max(bbox_a[1], bbox_b[1]),
                         f32_max(bbox_a[2], bbox_b[2]),
                         f32_min(bbox_a[3], bbox_b[3]),
                         f32_min(bbox_a[4], bbox_b[4])>>
        overlap_area == bbox_area(overlap_box)
    IN  Frac(overlap_area * EpsInv,
             (bbox_area(bbox_a) + bbox_area(bbox_b) - overlap_area) * EpsInv
                 + Grid * Grid)

\* the candidate overlaps one of the selected boxes by more than max_iou
Suppressed(bbox, selected, max_iou) ==
    \E k \in 1..Len(selected) : FracGt(iou(bbox, selected[k][1]), max_iou)

RECURSIVE NmsLoop(_, _, _)
\* the 'candidates loop: pop the last candidate, push it unless suppressed
NmsLoop(sorted, selected, max_iou) ==
    IF sorted = <<>>
    THEN selected
    ELSE LET cand == sorted[Len(sorted)]
             rest == SubSeq(sorted, 1, Len(sorted) - 1)
         IN  IF Suppressed(cand[1], selected, max_iou)
             THEN NmsLoop(rest, selected, max_iou)
             ELSE NmsLoop(rest, Append(selected, cand), max_iou)

\* a suppression that looks at the box selected last only
non_maximum_suppression_last(sorted_bboxes_with_confidences, max_iou) ==
    LET RECURSIVE Loop(_, _)
        Loop(sorted, selected) ==
            IF sorted = <<>>
            THEN selected
            ELSE LET cand == sorted[Len(sorted)]
                     rest == SubSeq(sorted, 1, Len(sorted) - 1)
                 IN  IF /\ selected # <<>>
                        /\ FracGt(iou(cand[1], selected[Len(selected)][1]),
                                  max_iou)
                     THEN Loop(rest, selected)
                     ELSE Loop(rest, Append(selected, cand))
    IN  Loop(sorted_bboxes_with_confidences, <<>>)

\* a suppression that pops once before its loop
non_maximum_suppression_skip(sorted_bboxes_with_confidences, max_iou) ==
    IF sorted_bboxes_with_confidences = <<>>
    THEN <<>>
    ELSE NmsLoop(SubSeq(sorted_bboxes_with_confidences, 1,
                        Len(sorted_bboxes_with_confidences) - 1),
                 <<>>, max_iou)

\* infer_server: the candidates are sorted by ascending confidence
non_maximum_suppression(sorted_bboxes_with_confidences, max_iou) ==
    NmsLoop(sorted_bboxes_with_confidences, <<>>, max_iou)

RECURSIVE RootNmsLoop(_, _, _, _)
\* the loop of the root crate: it ends at the first candidate below
\* min_confidence
RootNmsLoop(sorted, selected, max_iou, min_confidence) ==
    IF sorted = <<>>
    THEN selected
    ELSE LET cand == sorted[Len(sorted)]
             rest == SubSeq(sorted, 1, Len(sorted) - 1)
         IN  IF f32_lt(cand[2], min_confidence)
             THEN selected
             ELSE IF Suppressed(cand[1], selected, max_iou)
             THEN RootNmsLoop(rest, selected, max_iou, min_confidence)
             ELSE RootNmsLoop(rest, Append(selected, cand), max_iou,
                              min_confidence)

\* root crate: non_maximum_suppression(sorted, max_iou, min_confidence)
root_non_maximum_suppression(sorted, max_iou, min_confidence) ==
    RootNmsLoop(sorted, <<>>, max_iou, min_confidence)

RECURSIVE chunks(_, _)
\* slice::chunks(n): pieces of n elements, the last one may be shorter
chunks(data, n) ==
    IF data = <<>> THEN <<>>
    ELSE IF Len(data) <= n THEN <<data>>
    ELSE <<SubSeq(data, 1, n)>> \o chunks(SubSeq(data, n + 1, Len(data)), n)

\* confidences.slice(s![0, .., 1]) of a tensor in row-major order: ndarray
\* panics unless the tensor has three axes, a row 0 and a column 1
slice_0_all_1(tensor) ==
    IF Len(tensor.shape) # 3 THEN [panic |-> TRUE, v |-> <<>>]
    ELSE IF tensor.shape[1] < 1 \/ tensor.shape[3] < 2
    THEN [panic |-> TRUE, v |-> <<>>]
    ELSE [panic |-> FALSE,
          v |-> [k \in 1..tensor.shape[2] |->
                    tensor.data[(k - 1) * tensor.shape[3] + 2]]]

RECURSIVE Zip(_, _)
\* bboxes.zip(confidences.iter()): each round takes the next chunk, which
\* Bbox::try_from(x).unwrap() turns into a box, then the next confidence
Zip(bbox_chunks, confidences) ==
    IF bbox_chunks = <<>> THEN [panic |-> FALSE, v |-> <<>>]
    ELSE IF Len(Head(bbox_chunks)) # 4 THEN [panic |-> TRUE, v |-> <<>>]
    ELSE IF confidences = <<>> THEN [panic |-> FALSE, v |-> <<>>]
    ELSE LET r == Zip(Tail(bbox_chunks), Tail(confidences))
         IN  [panic |-> r.panic,
              v |-> <<<<Head(bbox_chunks), Head(confidences)>>>> \o r.v]

\* filter_map: x if *x > self.min_confidence
Filter(pairs, min_confidence) ==
    SelectSeq(pairs, LAMBDA pr : f32_gt(pr[2], min_confidence))

RECURSIVE InsertAsc(_, _)
\* x goes behind the elements that are not greater
InsertAsc(sorted, x) ==
    IF sorted = <<>> THEN <<x>>
    ELSE IF sorted[Len(sorted)][2] <= x[2] THEN Append(sorted, x)
    ELSE Append(InsertAsc(SubSeq(sorted, 1, Len(sorted) - 1), x),
                sorted[Len(sorted)])

RECURSIVE SortAsc(_)
SortAsc(pairs) ==
    IF pairs = <<>> THEN <<>>
    ELSE InsertAsc(SortAsc(SubSeq(pairs, 1, Len(pairs) - 1)),
                   pairs[Len(pairs)])

\* sort_by(|a, b| a.1.partial_cmp(b.1).unwrap()): stable, ascending; a
\* comparison with NaN has no result and the unwrap panics
sort_by(pairs) ==
    IF Len(pairs) >= 2 /\ \E k \in 1..Len(pairs) : pairs[k][2] = NaN
    THEN [panic |-> TRUE, v |-> <<>>]
    ELSE [panic |-> FALSE, v |-> SortAsc(pairs)]

\* the second half of postproc: threshold, ascending sort, suppression
filter_sort_nms(pairs, max_iou, min_confidence) ==
    LET sorted == sort_by(Filter(pairs, min_confidence))
    IN  IF sorted.panic THEN [kind |-> "Panic", v |-> <<>>]
        ELSE [kind |-> "Ok", v |-> non_maximum_suppression(sorted.v, max_iou)]

\* UltrafaceModel::postproc on the tensors of a model output
postproc(raw_nn_out, max_iou, min_confidence) ==
    IF Len(raw_nn_out) < 1 THEN [kind |-> "Panic", v |-> <<>>]
    ELSE IF ~raw_nn_out[1].f32 THEN [kind |-> "Err", v |-> <<>>]
    ELSE IF slice_0_all_1(raw_nn_out[1]).panic
    THEN [kind |-> "Panic", v |-> <<>>]
    ELSE IF Len(raw_nn_out) < 2 THEN [kind |-> "Panic", v |-> <<>>]
    ELSE IF ~raw_nn_out[2].f32 THEN [kind |-> "Err", v |-> <<>>]
    ELSE LET zipped == Zip(chunks(raw_nn_out[2].data, 4),
                           slice_0_all_1(raw_nn_out[1]).v)
         IN  IF zipped.panic THEN [kind |-> "Panic", v |-> <<>>]
             ELSE filter_sort_nms(zipped.v, max_iou, min_confidence)

(* ------------------------------------------------------------------ *)
(* Inputs of the calls                                                  *)
(* ------------------------------------------------------------------ *)
\* sequences over S of at most n elements
SeqUpTo(S, n) == UNION {[1..k -> S] : k \in 0..n}

RECURSIVE Flatten(_)
Flatten(v) == IF v = <<>> THEN <<>> ELSE Head(v) \o Flatten(Tail(v))

\* all boxes of the grid, well-formed or not
GridBoxes == (0..Grid) \X (0..Grid) \X (0..Grid) \X (0..Grid)

\* candidate boxes: the full frame, its upper half, two quarters that meet
\* in one corner, and the left half
NmsBoxes == {<<0, 0, 2, 2>>, <<0, 0, 2, 1>>, <<0, 0, 1, 1>>, <<1, 1, 2, 2>>,
             <<0, 0, 1, 2>>}

MaxIous == {Frac(1, 4), Frac(1, 2)}

\* confidences 0.3, 0.5, 0.7, 0.9
Confidences == {3, 5, 7, 9}

MinConfidences == {5}

IsAscending(pairs) ==
    \A k \in 1..(Len(pairs) - 1) : pairs[k][2] <= pairs[k + 1][2]

\* the face confidences as the tensor 1xKx2, or with another shape
ConfTensor(layout, f32, confs) ==
    LET K == Len(confs)
        two == Flatten([k \in 1..K |-> <<0, confs[k]>>])
    IN  [f32 |-> f32,
         shape |-> CASE layout = "1xKx2" -> <<1, K, 2>>
                     [] layout = "Kx2" -> <<K, 2>>
                     [] layout = "1xKx1" -> <<1, K, 1>>
                     [] layout = "0xKx2" -> <<0, K, 2>>,
         data |-> CASE layout = "1xKx2" -> two
                    [] layout = "Kx2" -> two
                    [] layout = "1xKx1" -> confs
                    [] layout = "0xKx2" -> <<>>]

\* the boxes as the tensor 1xKx4, followed by extra values
BoxTensor(f32, boxes, extra) ==
    [f32 |-> f32,
     shape |-> IF extra = 0 THEN <<1, Len(boxes), 4>>
               ELSE <<1, 4 * Len(boxes) + extra>>,
     data |-> Flatten(boxes) \o [k \in 1..extra |-> 0]]

ConfTensors ==
    {ConfTensor(layout, f32, confs) :
        layout \in {"1xKx2", "Kx2", "1xKx1", "0xKx2"}, f32 \in BOOLEAN,
        confs \in SeqUpTo({5, 7, NaN}, MaxK)}

BoxTensors ==
    {BoxTensor(f32, boxes, extra) :
        f32 \in BOOLEAN,
        boxes \in SeqUpTo({<<0, 0, 2, 2>>, <<1, 1, 2, 2>>}, MaxK),
        extra \in 0..3}

\* model outputs of no, one or two tensors
NnOuts ==
    {<<>>} \cup {<<c>> : c \in ConfTensors}
           \cup {<<c, b>> : c \in ConfTensors, b \in BoxTensors}

(* ------------------------------------------------------------------ *)
(* The calls                                                            *)
(* ------------------------------------------------------------------ *)
NNInit == nn_fn = "none" /\ nn_in = <<>> /\ nn_out = <<>>

Call(fn, in, out) ==
    /\ UNCHANGED notNN
    /\ nn_fn' = fn
    /\ nn_in' = in
    /\ nn_out' = out

IouCall ==
    /\ nn_fn = "none"
    /\ \E a \in GridBoxes, b \in GridBoxes :
           Call("iou", <<a, b>>, <<iou(a, b), iou(b, a)>>)

NmsCall ==
    /\ nn_fn = "none"
    /\ \E sorted \in SeqUpTo(NmsBoxes \X Confidences, MaxCand),
          max_iou \in MaxIous :
           /\ IsAscending(sorted)
           /\ Call("non_maximum_suppression", <<sorted, max_iou>>,
                   non_maximum_suppression(sorted, max_iou))

RootNmsCall ==
    /\ nn_fn = "none"
    /\ \E sorted \in SeqUpTo(NmsBoxes \X Confidences, MaxCand),
          max_iou \in MaxIous, min_confidence \in MinConfidences :
           /\ IsAscending(sorted)
           /\ Call("root_non_maximum_suppression",
                   <<sorted, max_iou, min_confidence>>,
                   root_non_maximum_suppression(sorted, max_iou, min_confidence))

FilterCall ==
    /\ nn_fn = "none"
    /\ \E pairs \in SeqUpTo(NmsBoxes \X Confidences, MaxCand),
          max_iou \in MaxIous, min_confidence \in MinConfidences :
           Call("filter_sort_nms", <<pairs, max_iou, min_confidence>>,
                filter_sort_nms(pairs, max_iou, min_confidence))

PostprocCall ==
    /\ nn_fn = "none"
    /\ \E raw_nn_out \in NnOuts, min_confidence \in MinConfidences :
           Call("postproc", <<raw_nn_out, Frac(1, 2), min_confidence>>,
                postproc(raw_nn_out, Frac(1, 2), min_confidence))

NNNext ==
    \/ IouCall
    \/ NmsCall
    \/ RootNmsCall
    \/ FilterCall
    \/ PostprocCall

(* ================================================================== *)
(* Specifications                                                       *)
(* ================================================================== *)
Init ==
    HGInit /\ MPInit /\ PSInit /\ NNInit /\ MeterInit /\ BrokerInit

SpecHG == Init /\ [][HGNext]_vars
SpecHGIds == Init /\ [][HGIdsNext]_vars

SpecMeter == Init /\ [][MeterNext]_vars
SpecBroker == Init /\ [][BrokerNext]_vars
SpecMP == Init /\ [][MPNext]_vars
\* the message-passing server with one publisher connection and sinks on
\* both sides of the Registry
SpecMPInfered == Init /\ [][MPInferedNext]_vars

SpecPS == Init /\ [][PSNext]_vars

SpecNN == Init /\ [][NNNext]_vars

(* ------------------------------------------------------------------ *)
(* Properties of the hour-glass server                                  *)
(* ------------------------------------------------------------------ *)
RECURSIVE IsSubseq(_, _)
\* a is b with some elements left out
IsSubseq(a, b) ==
    IF a = <<>> THEN TRUE
    ELSE IF b = <<>> THEN FALSE
    ELSE IF Head(a) = Head(b) THEN IsSubseq(Tail(a), Tail(b))
    ELSE IsSubseq(a, Tail(b))

\* the items a raw viewer of the publisher's channel gets if none is lost
PublishedItems == [i \in 1..Len(hg_pub) |-> as_jpeg_stream_item(Jpeg(i))]

\* nothing is in flight between the socket and the broadcast channels
HgQuiet == incoming = <<>> /\ hg_pc = "read"

\* a raw viewer of the publisher's channel that attached before the first
\* frame, is still connected, never lagged and has drained its receiver
EarlyDrained(s) ==
    /\ sub_st[s] = "live" /\ sub_kind[s] = "raw" /\ sub_name[s] = PubName
    /\ sub_early[s] /\ ~sub_lost[s] /\ sub_lag[s] = 0 /\ sub_q[s] = <<>>

\* C1: with the subscribers attached before the first frame and draining,
\* every published frame reaches every subscriber exactly once, in order
C1_Fanout ==
    HgQuiet => \A s \in Subs : EarlyDrained(s) => sub_recv[s] = PublishedItems

\* the router step that handles a frame message
RouterTakesFrame ==
    /\ router_pc = "recv" /\ incoming # <<>> /\ incoming' = Tail(incoming)
    /\ Head(incoming).kind = "FrameMsg"

\* the frame at the head of the incoming queue is the newest value of the
\* receiver of every live raw viewer of its channel after the step
RawDelivered ==
    \A s \in RawSubs(hashed(Head(incoming).id)) :
        /\ sub_q'[s] # <<>>
        /\ sub_q'[s][Len(sub_q'[s])] = as_jpeg_stream_item(Head(incoming).data)

\* C5: while the worker takes no job and the channel has annotated viewers,
\* every routed frame still reaches the raw viewers of the channel, and the
\* inference queue stays within its capacity
C5_RawNotStarved ==
    /\ [](Len(infer_q) <= InferCap)
    /\ [][(RouterTakesFrame /\ AnnotSubs(hashed(Head(incoming).id)) # {}
            /\ infer_q # <<>> /\ observed' = observed)
          => RawDelivered]_vars

\* C6: a frame enters the inference queue only if its channel has an
\* annotated viewer at that moment
C6_OfferNeedsAnnotSub ==
    [][(RouterTakesFrame /\ Len(infer_q') > Len(infer_q))
          => AnnotSubs(hashed(Head(incoming).id)) # {}]_vars

\* no viewer of an annotated stream has ever attached
NoAnnotEver == \A s \in Subs : sub_st[s] # "idle" => sub_kind[s] = "raw"

\* C7: without annotated viewers the worker sees no job, and the raw
\* viewers still get every published frame
C7_NoAnnotNoJobs ==
    NoAnnotEver =>
        /\ observed = <<>> /\ infer_q = <<>>
        /\ HgQuiet =>
              \A s \in Subs : EarlyDrained(s) => sub_recv[s] = PublishedItems

\* C8: the inference queue never exceeds its capacity; an offer to a full
\* queue leaves the queue as it is, and the router is never held up by it
C8_InferQueueBounded ==
    /\ [](Len(infer_q) <= InferCap)
    /\ []((router_pc = "recv" /\ incoming # <<>>) => ENABLED RouterRecv)
    /\ [][(RouterTakesFrame /\ Len(infer_q) = InferCap)
            => (infer_q' = infer_q /\ router_pc' = "recv")]_vars

\* the router has just offered a frame to the full queue
C8_Witness == hg_offer = "full" /\ Len(infer_q) = InferCap

\* C10: what a raw viewer receives is a subsequence of what the publisher
\* sent to its channel: frames may be missing, never reordered or repeated
C10_Subsequence ==
    \A s \in Subs :
        (sub_kind[s] = "raw" /\ sub_name[s] = PubName)
            => IsSubseq(sub_recv[s], PublishedItems)

\* a viewer of the publisher's channel that lagged, so that frames were
\* dropped for it, and that has still received two frames
C10_Witness ==
    \E s \in Subs :
        /\ sub_kind[s] = "raw" /\ sub_name[s] = PubName
        /\ sub_lost[s] /\ Len(sub_recv[s]) >= 2
        /\ Len(sub_recv[s]) < Len(hg_pub)

(* ================================================================== *)
(* Properties of the message-passing server                             *)
(* ================================================================== *)
Range(v) == {v[k] : k \in 1..Len(v)}

\* C2: a fanout removes from the listeners of a session only sinks whose
\* send failed (the viewer is gone), whatever their position in the list
C2_EvictOnlyFailed ==
    [][\A c \in MpConns :
          mp_pc'[c] # "panicked" =>
             \A s \in Range(mp_listeners[c]) \ Range(mp_listeners'[c]) :
                 mp_sub_st[s] = "gone"]_vars

\* the connections whose frames viewer s has been handed
Origins(s) ==
    {MpOrigin(mp_sub_recv[s][k]) : k \in 1..Len(mp_sub_recv[s])}
        \cup {MpOrigin(mp_sink_q[s][k]) : k \in 1..Len(mp_sink_q[s])}

\* C3: at most one publisher session publishes on a channel: no two
\* connections that announced the same name both get frames to viewers
C3_OnePublisher ==
    \A c1, c2 \in MpConns :
        (/\ c1 # c2
         /\ mp_pc[c1] # "connect" /\ mp_pc[c2] # "connect"
         /\ mp_name[c1] = mp_name[c2])
        => ~ (\E s1, s2 \in MpSubs : c1 \in Origins(s1) /\ c2 \in Origins(s2))

\* C4: a session in its send loop is never suspended on a full queue: the
\* send to the sink in turn can always complete
C4_NeverSuspends ==
    \A c \in MpConns : mp_pc[c] = "fanout" => ENABLED MpSendOne(c)

(* ================================================================== *)
(* Properties of the publish/subscribe server                           *)
(* ================================================================== *)
NoDup(v) == \A i, j \in 1..Len(v) : v[i] = v[j] => i = j

\* frames on their way from the data socket to the Inferer
PsInFlight ==
    ps_mpsc_q[PubName]
        \o (IF ps_held = <<>> THEN <<>> ELSE <<ps_held[1]>>)
        \o [k \in 1..Len(ps_infer_queue) |-> ps_infer_queue[k][1]]

\* C9: a published frame reaches the inference worker at most once, a job
\* leaves the inference queue only by being handed to the worker, once, and
\* the worker observes no more jobs than frames were published
C9_AtMostOnce ==
    /\ [](/\ NoDup(ps_observed \o PsInFlight)
          /\ Len(ps_observed) + Len(PsInFlight) <= ps_nsent)
    /\ [][(ps_observed' # ps_observed
              \/ Len(ps_infer_queue') < Len(ps_infer_queue))
            => /\ ps_infer_queue # <<>>
               /\ ps_observed' = Append(ps_observed, Head(ps_infer_queue)[1])
               /\ ps_infer_queue' = Tail(ps_infer_queue)]_vars

\* the worker has taken two jobs and one published frame never reached it
C9_Witness ==
    /\ Len(ps_observed) >= 2
    /\ ps_pc = "read"
    /\ ps_nsent > Len(ps_observed) + Len(PsInFlight)

\* frame numbers viewer s holds or has been handed
PsSeen(s) ==
    {ps_sub_q[s][k].n : k \in 1..Len(ps_sub_q[s])}
        \cup {ps_sub_recv[s][k][2].n : k \in 1..Len(ps_sub_recv[s])}

\* C11: a raw viewer that subscribes while the publisher is streaming never
\* gets a frame that was sent before its subscribe call returned
C11_NoReplay ==
    \A s \in PsSubs :
        (ps_sub_st[s] # "idle" /\ ps_sub_kind[s] = "raw")
            => \A n \in PsSeen(s) : n > ps_sub_from[s]

\* a raw viewer that subscribed after the first frame and has been handed one
C11_Witness ==
    \E s \in PsSubs :
        /\ ps_sub_kind[s] = "raw" /\ ps_sub_st[s] = "live"
        /\ ps_sub_from[s] >= 1 /\ ps_sub_recv[s] # <<>>

\* C15: a live annotated viewer is never attached to an infered channel
\* whose senders have all been dropped: the server does not end its stream
C15_NotCutOff ==
    \A s \in PsSubs :
        (ps_sub_st[s] = "live" /\ ps_sub_kind[s] = "infered")
            => ~PsClosed(ps_sub_ch[s])

\* C16: a frame whose id differs from the name of the ConnectReq reaches no
\* viewer and is not offered for inference
C16_MismatchDropped ==
    [][/\ (ps_nsent' = ps_nsent + 1 /\ ps_cur'.id # PubName)
            => ps_sub_q' = ps_sub_q
       /\ (ps_pc = "offer" /\ ps_cur.id # PubName)
            => Len(ps_mpsc_q'[PubName]) <= Len(ps_mpsc_q[PubName])]_vars

\* C18: a malformed payload after the ConnectReq does not end the session:
\* the read loop of a connected publisher never panics
C18_MalformedTolerated == [][ps_pc = "read" => ps_pc' # "panicked"]_vars

\* C12: a viewer whose receiver overflowed at a send is no longer among the
\* receivers of the channel when the next frame is dispatched to it
C12_FailedSinkGone ==
    [][(RouterTakesFrame /\ frames_sender_map[hashed(Head(incoming).id)] # NoCh)
          => \A s \in Receivers(frames_sender_map[hashed(Head(incoming).id)]) :
                sub_lag[s] = 0]_vars

\* no step of the server is enabled: the data socket has nothing to forward,
\* the router waits for a message, the worker has no job
HgServerIdle ==
    ~ENABLED (HgSocketSend \/ RouterStart \/ RouterRecv \/ HgInfererRun)

\* entries of a channel map whose channel has no receiver
DeadEntries(map) == {id \in Ids : map[id] # NoCh /\ receiver_count(map[id]) = 0}

\* C13: once the server is quiescent, no channel map keeps an entry without
\* subscribers, although no further frame arrives
C13_Collected ==
    HgServerIdle => /\ DeadEntries(frames_broadcast_map) = {}
                    /\ DeadEntries(infered_broadcast_map) = {}

\* the channel map viewer s subscribed in
MapOf(s) ==
    IF sub_kind[s] = "raw" THEN frames_broadcast_map ELSE infered_broadcast_map

\* C14: every live receiver belongs to the sender that the channel map holds
\* for its channel id: the entry is neither removed nor replaced under it
C14_LiveAttached ==
    \A s \in Subs :
        sub_st[s] = "live" => MapOf(s)[hashed(sub_name[s])] = sub_ch[s]

\* a live viewer holds a channel created after the collection removed the
\* channel an earlier viewer had created for the same name and kind
C14_Witness ==
    \E s, t \in Subs :
        /\ sub_st[s] = "live" /\ sub_st[t] = "gone"
        /\ sub_name[s] = sub_name[t] /\ sub_kind[s] = sub_kind[t]
        /\ sub_ch[t] = t /\ sub_ch[s] = s

\* C17: when the first message of the connection is no ConnectReq, no frame
\* of the connection reaches a viewer or the inference queue
C17_UnannouncedDropped ==
    (~hg_connected /\ hg_pub # <<>>)
        => /\ \A s \in Subs : sub_q[s] = <<>> /\ sub_recv[s] = <<>>
           /\ infer_q = <<>>

\* C19: a session whose TCP stream has ended and that has nothing left to
\* take from the registry holds no sender of a viewer any more
C19_SessionReleased ==
    \A c \in MpConns :
        (mp_pc[c] = "ended" /\ ~ENABLED MpRecvListeners(c))
            => mp_listeners[c] = <<>>

\* live viewers of name whose sender the registry has taken from its queue
MpAttached(name) ==
    {s \in MpSubs : /\ mp_sub_st[s] = "live" /\ mp_sub_name[s] = name
                    /\ \A k \in 1..Len(mp_frame_q) : mp_frame_q[k][2] # s}

\* a session with this name has ended when connection c announces itself
MpReconnect(c, name) ==
    \E d \in MpConns \ {c} :
        mp_name[d] = name /\ mp_pc[d] \in {"ended", "panicked"}

\* C20: when a connection announces the name of an ended session, the list
\* the registry will hand to it holds the sender of every attached live
\* viewer of the name, so that its frames reach them
C20_ReconnectServes ==
    [][\A c \in MpConns :
          (mp_pc[c] = "connect" /\ mp_pc'[c] = "run"
             /\ MpReconnect(c, mp_name'[c]))
              => \A s \in MpAttached(mp_name'[c]) :
                    s \in Range(mp_frames_sender_map[hashed(mp_name'[c])])]_vars

\* InferBroker::run is suspended in infer_queue_tx.send(..).await
BrokerSuspended == ps_broker_pc = "send" /\ ~ENABLED BrokerSend

\* C21: no task waits for I/O with the lock of a channel map in its hands:
\* while the broker is suspended in a queue send, a viewer's subscribe call
\* goes through
C21_SubscribeNeverWaits ==
    BrokerSuspended
        => \A s \in PsSubs :
              ps_sub_st[s] = "idle" => ENABLED face_stream(s, PubName)

\* C22: a job whose process_frame returns Err has no output and no effect on
\* viewers and channels, and the worker takes the next job of the queue
C22_FailedJobDropped ==
    /\ [][(ps_observed' # ps_observed /\ ps_err')
            => /\ ps_sub_q' = ps_sub_q /\ ps_sub_lag' = ps_sub_lag
               /\ ps_unsendable' = ps_unsendable
               /\ ps_channel_map' = ps_channel_map
               /\ ps_sub_st' = ps_sub_st]_vars
    /\ [](ps_infer_queue # <<>> => ENABLED InfererRun)

\* the job of a channel with a live annotated viewer has failed
C22_Witness ==
    /\ ps_err
    /\ \E s \in PsSubs :
          /\ ps_sub_st[s] = "live" /\ ps_sub_kind[s] = "infered"
          /\ ps_sub_name[s] = PubName
          /\ ps_channel_map[PubName] = ps_sub_ch[s]

\* C23: postprocessing never panics on an unexpected model output (number of
\* tensors, shapes, a box tensor whose length is no multiple of 4, NaN
\* confidences): it returns detections, possibly none, or an error
C23_PostprocNeverPanics ==
    nn_fn = "postproc" => nn_out.kind \in {"Ok", "Err"}

\* C24: the raw counter of the meter ticks exactly once for every frame the
\* publisher sends, whatever the number of viewers: once the frames of an
\* announced publisher are routed and the viewers have drained their receivers,
\* the counter equals the number of frames published
C24_MeterCountsPublished ==
    (/\ hg_connected /\ HgQuiet
     /\ \A s \in Subs : sub_q[s] = <<>> /\ sub_lag[s] = 0)
        => METER.raw_frames = Len(hg_pub)

\* C25: the multipart wrapping is applied exactly once and loses nothing:
\* every item a viewer receives is the header, then the very JPEG the
\* publisher sent (raw viewer) or the worker made of it (annotated viewer),
\* itself not wrapped, then the trailer
C25_WrappedOnce ==
    \A s \in PsSubs :
        \A k \in 1..Len(ps_sub_recv[s]) :
            LET item == ps_sub_recv[s][k]
            IN  /\ Len(item) = 3
                /\ item[1] = "--frame\r\nContent-Type: image/jpeg\r\n\r\n"
                /\ item[3] = "\r\n\r\n"
                /\ \E n \in 1..ps_nsent :
                      item[2] = IF ps_sub_kind[s] = "raw" THEN Jpeg(n)
                                ELSE process_frame(Jpeg(n))

\* a raw viewer and an annotated viewer have each received an item
C25_Witness ==
    \E s \in PsSubs, t \in PsSubs :
        /\ ps_sub_kind[s] = "raw" /\ ps_sub_recv[s] # <<>>
        /\ ps_sub_kind[t] = "infered" /\ ps_sub_recv[t] # <<>>

\* an annotated viewer holds or has been handed the result for frame n
AnnotatedSent(n) ==
    \E t \in PsSubs : ps_sub_kind[t] = "infered" /\ n \in PsSeen(t)

\* raw viewer r of the publisher's channel subscribed before frame n was
\* read and its receiver has lost nothing
RawListener(r, n) ==
    /\ ps_sub_st[r] = "live" /\ ps_sub_kind[r] = "raw"
    /\ ps_sub_name[r] = PubName
    /\ ps_sub_from[r] < n /\ ps_sub_lag[r] = 0

Count(pairs, pr) == Cardinality({k \in DOMAIN pairs : pairs[k] = pr})

\* the state is the result of a call of non_maximum_suppression
NmsDone == nn_fn = "non_maximum_suppression"

\* candidates of the call that are not all in its result
LeftOut == {pr \in Range(nn_in[1]) : Count(nn_in[1], pr) > Count(nn_out, pr)}

\* no two boxes of the result overlap by more than max_iou
NoLargeOverlap(selected, max_iou) ==
    \A i \in DOMAIN selected, j \in DOMAIN selected :
        i # j => ~FracGt(iou(selected[i][1], selected[j][1]), max_iou)

\* boxes of the result that overlap candidate pr by more than max_iou
Suppressors(pr) ==
    {k \in DOMAIN nn_out : FracGt(iou(pr[1], nn_out[k][1]), nn_in[2])}

\* C27: no two returned boxes have an IoU above max_iou, and a candidate is
\* left out only if its IoU with a returned box of greater confidence is
\* above max_iou
C27_SuppressedByMoreConfident ==
    NmsDone
        => /\ NoLargeOverlap(nn_out, nn_in[2])
           /\ \A pr \in LeftOut :
                 \E k \in Suppressors(pr) : nn_out[k][2] > pr[2]

\* C27, amended: no two returned boxes have an IoU above max_iou, the
\* returned pairs are candidates, and a candidate is left out only if its IoU
\* with a returned box of greater or equal confidence is above max_iou
C27_SuppressedByEarlier ==
    NmsDone
        => /\ NoLargeOverlap(nn_out, nn_in[2])
           /\ \A k \in DOMAIN nn_out :
                 Count(nn_out, nn_out[k]) <= Count(nn_in[1], nn_out[k])
           /\ \A pr \in LeftOut :
                 \E k \in Suppressors(pr) : nn_out[k][2] >= pr[2]

\* a call that returns two boxes and leaves out a candidate whose only
\* suppressors are as confident as itself
C27_Witness ==
    /\ NmsDone
    /\ Len(nn_out) >= 2
    /\ \E pr \in LeftOut :
          \A k \in Suppressors(pr) : nn_out[k][2] = pr[2]

\* every pair of the list is above the threshold, most confident first
AboveThresholdDescending(selected, min_confidence) ==
    /\ \A k \in DOMAIN selected : f32_gt(selected[k][2], min_confidence)
    /\ \A k \in 1..(Len(selected) - 1) : selected[k][2] >= selected[k + 1][2]

\* C28: every returned pair has a confidence strictly above min_confidence
\* (a candidate at the threshold is not returned) and the pairs are returned
\* in descending order of confidence, by the detection filter of the server
\* and by the suppression function that takes the threshold itself
C28_AboveThreshold ==
    /\ nn_fn = "filter_sort_nms" /\ nn_out.kind = "Ok"
          => AboveThresholdDescending(nn_out.v, nn_in[3])
    /\ nn_fn = "root_non_maximum_suppression"
          => AboveThresholdDescending(nn_out, nn_in[3])

\* the state is the result of a run of threshold, sort and suppression
FilterDone == nn_fn = "filter_sort_nms" /\ nn_out.kind = "Ok"

\* C29: the detection filter (threshold, ascending sort, suppression) applied
\* to its own result with the same max_iou and min_confidence returns the
\* same pairs
C29_Idempotent ==
    FilterDone
        => LET again == filter_sort_nms(nn_out.v, nn_in[2], nn_in[3])
           IN  /\ again.kind = "Ok"
               /\ Range(again.v) = Range(nn_out.v)
               /\ Len(again.v) = Len(nn_out.v)

\* a run that returns two pairs and has suppressed a candidate that is above
\* the threshold
C29_Witness ==
    /\ FilterDone
    /\ Len(nn_out.v) >= 2
    /\ \E k \in DOMAIN nn_in[1] :
          /\ f32_gt(nn_in[1][k][2], nn_in[3])
          /\ Count(nn_in[1], nn_in[1][k]) > Count(nn_out.v, nn_in[1][k])

\* the state is the result of iou(a, b) and iou(b, a)
IouDone == nn_fn = "iou"

\* C30: iou(a, b) = iou(b, a) for all boxes, and iou(a, a) is 0 when a has
\* no area and exactly 1 otherwise
C30_IouSymmetricNormalised ==
    IouDone
        => /\ nn_out[1] = nn_out[2]
           /\ nn_in[1] = nn_in[2]
                 => IF bbox_area(nn_in[1]) = 0 THEN nn_out[1].num = 0
                    ELSE nn_out[1].num = nn_out[1].den

\* C31: when the receiver of one viewer is dropped only that viewer's sender
\* leaves the registry's map: a viewer whose receiver is open and whose
\* sender is in the map stays in the map, for the publishers to come
C31_OthersStayRegistered ==
    [][\A id \in Ids :
          \A s \in Range(mp_frames_sender_map[id]) :
              mp_sub_st[s] = "live"
                  => s \in Range(mp_frames_sender_map'[id])]_vars

RECURSIVE FlattenQ(_)
\* the senders of the lists waiting in a task's listener channel
FlattenQ(q) == IF q = <<>> THEN <<>> ELSE Head(q) \o FlattenQ(Tail(q))

\* connection c is the only one that has announced itself, and the registry
\* has registered it
MpOnlyPublisher(c) ==
    /\ mp_pc[c] \in {"run", "fanout"}
    /\ \A d \in MpConns \ {c} : mp_pc[d] = "connect"
    /\ \A k \in 1..Len(mp_tcp_q) : mp_tcp_q[k][2] # c

\* times the sender of viewer s has been handed to the session of c
MpHanded(c, s) ==
    Cardinality({k \in DOMAIN mp_listeners[c] : mp_listeners[c][k] = s})
        + Cardinality({k \in DOMAIN FlattenQ(mp_senders_q[c]) :
                          FlattenQ(mp_senders_q[c])[k] = s})

\* C32: in whatever order the viewers and the publisher of a channel reach
\* the registry, the sender of every registered viewer is in the publisher
\* session's listeners exactly once: no viewer is left out, none gets a
\* frame twice
C32_HandedExactlyOnce ==
    \A c \in MpConns :
        MpOnlyPublisher(c)
            => \A s \in MpAttached(mp_name[c]) : MpHanded(c, s) = 1

\* C33: the mpsc receiver of a name has one holder at any time: it is never
\* both in the pubsub's map and in the broker's channel map, a take that
\* yields the receiver finds it not taken, and once taken every take yields
\* nothing until the broker has returned it
C33_SingleReceiver ==
    /\ [](\A n \in Names :
             /\ ps_channel_map[n] # NoCh => ps_mpsc_map[n] = "taken"
             /\ ps_mpsc_map[n] = "taken"
                   => ~get_mpsc_receiver(ps_mpsc_map, n).rx)
    /\ [][\A n \in Names :
             (ps_channel_map[n] = NoCh /\ ps_channel_map'[n] # NoCh)
                 => ps_mpsc_map[n] # "taken" /\ ps_mpsc_map'[n] = "taken"]_vars

\* the receiver has been taken, returned and taken again by a later viewer
C33_Witness ==
    /\ ps_channel_map[PubName] = 2
    /\ ps_mpsc_map[PubName] = "taken"
    /\ ps_sub_st[1] = "gone" /\ ps_sub_kind[1] = "infered"
    /\ ps_sub_ch[1] = 1 /\ ps_sub_name[1] = PubName

\* the sender the publisher got from get_mpsc_sender is open: the receiver
\* of the name is in the pubsub's map or in the broker's channel map
MpscSenderOpen(n) ==
    ps_mpsc_map[n] = "taken" => ps_channel_map[n] # NoCh

\* C34: while annotated viewers attach and leave, the mpsc sender of the
\* publisher is never closed, and a viewer that attaches later gets the
\* frames sent through it: a live annotated viewer of the publisher's
\* channel that has received nothing yet is on a channel that still has a
\* sender
C34_SenderStaysValid ==
    /\ \A n \in Names : MpscSenderOpen(n)
    /\ \A s \in PsSubs :
          (/\ ps_sub_st[s] = "live" /\ ps_sub_kind[s] = "infered"
           /\ ps_sub_name[s] = PubName
           /\ ps_sub_recv[s] = <<>> /\ ps_sub_q[s] = <<>>)
              => ~PsClosed(ps_sub_ch[s])

\* the first half of C34 alone
C34_SenderOpen == \A n \in Names : MpscSenderOpen(n)

\* C35: a frame the InferBroker takes from the mpsc channel of a name is
\* one of the two frames the publisher offered last
C35_OnlyRecentFrames ==
    [][(ps_held = <<>> /\ ps_held' # <<>>)
          => ps_held'[1].n >= ps_nsent - 1]_vars

\* C36: a sink registered on the annotated side of a channel gets items of
\* the inference worker only, never a raw frame a publisher session
\* forwards
C36_NoRawOnAnnotated ==
    \A s \in MpSubs :
        mp_sub_kind[s] = "infered"
            => \A item \in Range(mp_sink_q[s]) \cup Range(mp_sub_recv[s]) :
                   item[2].boxes

\* C37: the values get_reset_raw returned plus the raw counter add up to
\* the calls of tick_raw made so far, the same for the infered counter, and
\* a tick or a reset of one counter leaves the other counter as it was
C37_NoTickLostOrDuplicated ==
    /\ [](/\ meter_got.raw_frames + METER.raw_frames = meter_ticks.raw_frames
          /\ meter_got.infered_frames + METER.infered_frames
                = meter_ticks.infered_frames)
    /\ [][/\ (meter_ticks'.raw_frames # meter_ticks.raw_frames
                 \/ (meter_pc = "raw" /\ meter_pc' = "infered"))
               => METER'.infered_frames = METER.infered_frames
          /\ (meter_ticks'.infered_frames # meter_ticks.infered_frames
                 \/ (meter_pc = "infered" /\ meter_pc' = "raw"))
               => METER'.raw_frames = METER.raw_frames]_vars

\* both counters were ticked while the logger was between its two resets,
\* and both resets have returned ticks
C37_Witness ==
    /\ meter_got.raw_frames > 0 /\ meter_got.infered_frames > 0
    /\ METER.raw_frames > 0 /\ METER.infered_frames > 0
    /\ meter_pc = "infered"

\* C38: InferBroker::run is never blocked sending a job on the full infer
\* queue, the lock of channel_map held, while Inferer::run is blocked
\* sending a name on the full unsendable queue
C38_NoDeadlock ==
    ~(/\ ib_pc = "send"
      /\ Len(ib_infer_queue) = InferQueueCap
      /\ ib_inferer # NoName
      /\ Len(ib_unsendable) = UnsendableCap)

\* FrameRouter::run takes a message from the incoming queue
RouterConsumes ==
    /\ router_pc = "recv" /\ incoming # <<>>
    /\ incoming' = Tail(incoming)

\* the local snapshot has the keys and senders of the shared maps
SnapshotFresh ==
    /\ frames_sender_map = frames_broadcast_map
    /\ infered_sender_map = infered_broadcast_map

\* viewers of a raw channel that is in the router's snapshot under the id
\* of the message at the head of the incoming queue
Dispatched ==
    {s \in Subs :
        /\ sub_st[s] = "live" /\ sub_kind[s] = "raw"
        /\ Head(incoming).kind = "FrameMsg"
        /\ sub_ch[s] = frames_sender_map[hashed(Head(incoming).id)]}

\* C39: the router refreshes its snapshot after every 4 messages it takes
\* from the incoming queue, so an entry a viewer creates is in the
\* snapshot after at most 4 further messages, whatever they are; after a
\* refresh the snapshot has the keys and senders of the shared maps; a
\* frame whose channel is in the snapshot is dispatched to its viewers
C39_BoundedAttachLag ==
    /\ [](router_i \in 0..(RefreshEvery - 1))
    /\ [][(router_pc = "start" /\ router_pc' = "recv") => SnapshotFresh']_vars
    /\ [][RouterConsumes
            => /\ IF router_i + 1 = RefreshEvery
                  THEN router_i' = 0 /\ SnapshotFresh'
                  ELSE router_i' = router_i + 1
               /\ \A s \in Dispatched :
                     /\ sub_q'[s] # <<>>
                     /\ sub_q'[s][Len(sub_q'[s])]
                           = as_jpeg_stream_item(Head(incoming).data)]_vars

\* a viewer created the entry of the publisher's channel after a refresh,
\* the router has since taken 4 messages without dispatching to it, the
\* refresh after the fourth has put the entry in the snapshot, and the
\* next frame of the channel waits in the incoming queue
C39_Witness ==
    \E s \in Subs :
        /\ sub_st[s] = "live" /\ sub_kind[s] = "raw"
        /\ sub_name[s] = PubName /\ sub_ch[s] = s
        /\ sub_q[s] = <<>> /\ sub_recv[s] = <<>> /\ sub_lag[s] = 0
        /\ router_pc = "recv" /\ router_i = 0
        /\ Len(hg_pub) = RefreshEvery
        /\ frames_sender_map[hashed(PubName)] = s
        /\ incoming # <<>> /\ Head(incoming).kind = "FrameMsg"

\* values sent to the receiver of viewer s, taken or not
SentTo(s) == Range(sub_q[s]) \cup Range(sub_recv[s])

\* C40: a frame with the id X reaches raw viewers of a name whose hashed
\* id is that of X only, and its inference result annotated viewers of
\* that id only
C40_ChannelIsolation ==
    \A s \in Subs :
        \A item \in SentTo(s) :
            /\ hashed(hg_pub[item[2].n]) = hashed(sub_name[s])
            /\ item[2].boxes <=> sub_kind[s] = "infered"

\* frames of both channels have been routed while a raw viewer of one and
\* an annotated viewer of the other were attached, and each has got the
\* frame of its channel
C40_Witness ==
    \E s, t \in Subs :
        /\ sub_kind[s] = "raw" /\ sub_kind[t] = "infered"
        /\ sub_name[s] # sub_name[t]
        /\ sub_recv[s] # <<>> /\ sub_recv[t] # <<>>
        /\ Range(hg_pub) = Names

====
